---- MODULE Spec2Model ----
(***************************************************************************)
(* Head-pose-to-viewport pipeline of panoTest: ViewportManager             *)
(* (src/src/viewport/viewport-manager.js) and HeadTrackingController       *)
(* (src/src/tracking/head-tracking-controller.js) with the math helpers of *)
(* src/src/utils/math-utils.js.                                            *)
(*                                                                         *)
(* JavaScript numbers are modelled in fixed point:                         *)
(*   display percent      in 1/PctUnit percent                             *)
(*   pixel offsets        in 1/OffUnit pixel                               *)
(*   stable point, x, y   in 1/PosUnit of the pose source's unit           *)
(*   translation z        in 1/ZUnit of the pose source's unit             *)
(*   distance             in 1/DistUnit metre                              *)
(*   angles               in 1/AngUnit degree                              *)
(* scale = 100 / displayPercent is kept exactly, as a fraction <<n, d>>.   *)
(* NaN and null are two values outside the range of the numbers used.      *)
(***************************************************************************)
EXTENDS Integers, Sequences, FiniteSets, TLC

PctUnit == 10^1
OffUnit == 10^3
PosUnit == 10^3
ZUnit    == 10^4
SensZUnit == 10^4
DistUnit == 10^4
AngUnit  == 10^1
Tenths   == 10^1

NaN  == 0 - 2^30
Null == 0 - 2^30 - 1

\* JavaScript ToNumber on a number-or-null operand: null is 0.
ToNumber(v) == IF v = Null THEN 0 ELSE v

\* a + b, a - b, a * b on JavaScript numbers; DivBy is the fixed-point rescaling
\* of a product or quotient by a positive integer.
Add(a, b) == IF ToNumber(a) = NaN \/ ToNumber(b) = NaN THEN NaN ELSE ToNumber(a) + ToNumber(b)
DivBy(a, k) == IF ToNumber(a) = NaN THEN NaN ELSE ToNumber(a) \div k
Sub(a, b) == IF ToNumber(a) = NaN \/ ToNumber(b) = NaN THEN NaN ELSE ToNumber(a) - ToNumber(b)
Mul(a, b) == IF ToNumber(a) = NaN \/ ToNumber(b) = NaN THEN NaN ELSE ToNumber(a) * ToNumber(b)

\* Math.abs
Abs(v) == IF v = NaN THEN NaN ELSE IF ToNumber(v) < 0 THEN 0 - ToNumber(v) ELSE ToNumber(v)

\* a > b and a < b on JavaScript numbers: false as soon as one side is NaN.
Gt(a, b) == ToNumber(a) # NaN /\ ToNumber(b) # NaN /\ ToNumber(a) > ToNumber(b)
Lt(a, b) == ToNumber(a) # NaN /\ ToNumber(b) # NaN /\ ToNumber(a) < ToNumber(b)

\* Math.max / Math.min: NaN if either argument is NaN.
MathMax(a, b) == IF ToNumber(a) = NaN \/ ToNumber(b) = NaN THEN NaN
                 ELSE IF ToNumber(a) > ToNumber(b) THEN ToNumber(a) ELSE ToNumber(b)
MathMin(a, b) == IF ToNumber(a) = NaN \/ ToNumber(b) = NaN THEN NaN
                 ELSE IF ToNumber(a) < ToNumber(b) THEN ToNumber(a) ELSE ToNumber(b)

(***************************************************************************)
(* math-utils.js                                                           *)
(***************************************************************************)
\* 2 * atan(r) in degrees, tabulated: entry k + 1 is the angle, in 1/AngUnit
\* degree, for r = k / 100.
TwoAtanDegTable == <<
  0, 11, 23, 34, 46, 57, 69, 80, 91, 103, 114, 126, 137, 148, 159, 171, 182, 193, 204, 215,
  226, 237, 248, 259, 270, 281, 291, 302, 313, 323, 334, 344, 355, 365, 376, 386, 396, 406, 416, 426,
  436, 446, 456, 465, 475, 485, 494, 503, 513, 522, 531, 540, 549, 558, 567, 576, 585, 594, 602, 611,
  619, 628, 636, 644, 652, 660, 668, 676, 684, 692, 700, 707, 715, 723, 730, 737, 745, 752, 759, 766,
  773, 780, 787, 794, 801, 807, 814, 820, 827, 833, 840, 846, 852, 858, 865, 871, 877, 883, 888, 894,
  900, 906, 911, 917, 922, 928, 933, 939, 944, 949, 955, 960, 965, 970, 975, 980, 985, 990, 994, 999,
  1004, 1009, 1013, 1018, 1022, 1027, 1031, 1036, 1040, 1044, 1049, 1053, 1057, 1061, 1065, 1069, 1073, 1077, 1081, 1085,
  1089, 1093, 1097, 1101, 1104, 1108, 1112, 1115, 1119, 1123, 1126, 1130, 1133, 1137, 1140, 1143, 1147, 1150, 1153, 1157,
  1160, 1163, 1166, 1169, 1173, 1176, 1179, 1182, 1185, 1188, 1191, 1194, 1197, 1199, 1202, 1205, 1208, 1211, 1213, 1216,
  1219, 1222, 1224, 1227, 1230, 1232, 1235, 1237, 1240, 1242, 1245, 1247, 1250, 1252, 1255, 1257, 1259, 1262, 1264, 1266,
  1269, 1271, 1273, 1275, 1278, 1280, 1282, 1284, 1286, 1289, 1291, 1293, 1295, 1297, 1299, 1301, 1303, 1305, 1307, 1309,
  1311, 1313, 1315, 1317, 1319, 1321, 1323, 1325, 1326, 1328, 1330, 1332, 1334, 1335, 1337, 1339, 1341, 1342, 1344, 1346,
  1348, 1349, 1351, 1353, 1354, 1356, 1358, 1359, 1361, 1362, 1364, 1366, 1367, 1369, 1370, 1372, 1373, 1375, 1376, 1378,
  1379, 1381, 1382, 1384, 1385, 1387, 1388, 1389, 1391, 1392, 1394, 1395, 1396, 1398, 1399, 1400, 1402, 1403, 1404, 1406,
  1407, 1408, 1409, 1411, 1412, 1413, 1415, 1416, 1417, 1418, 1419, 1421, 1422, 1423, 1424, 1425, 1427, 1428, 1429, 1430,
  1431, 1432, 1434, 1435, 1436, 1437, 1438, 1439, 1440, 1441, 1442, 1444, 1445, 1446, 1447, 1448, 1449, 1450, 1451, 1452,
  1453, 1454, 1455, 1456, 1457, 1458, 1459, 1460, 1461, 1462, 1463, 1464, 1465, 1466, 1467, 1468, 1469, 1469, 1470, 1471,
  1472, 1473, 1474, 1475, 1476, 1477, 1478, 1478, 1479, 1480, 1481, 1482, 1483, 1484, 1485, 1485, 1486, 1487, 1488, 1489,
  1490, 1490, 1491, 1492, 1493, 1494, 1494, 1495, 1496, 1497, 1498, 1498, 1499, 1500, 1501, 1501, 1502, 1503, 1504, 1504,
  1505, 1506, 1507, 1507, 1508, 1509, 1510, 1510, 1511, 1512, 1512, 1513, 1514, 1514, 1515, 1516, 1517, 1517, 1518, 1519,
  1519, 1520, 1521, 1521, 1522, 1523, 1523, 1524, 1525, 1525, 1526, 1527, 1527, 1528, 1528, 1529, 1530, 1530, 1531, 1532,
  1532, 1533, 1533, 1534, 1535, 1535, 1536, 1536, 1537, 1538, 1538, 1539, 1539, 1540, 1540, 1541, 1542, 1542, 1543, 1543,
  1544, 1544, 1545, 1546, 1546, 1547, 1547, 1548, 1548, 1549, 1549, 1550, 1550, 1551, 1552, 1552, 1553, 1553, 1554, 1554,
  1555, 1555, 1556, 1556, 1557, 1557, 1558, 1558, 1559, 1559, 1560, 1560, 1561, 1561, 1562, 1562, 1563, 1563, 1564, 1564,
  1565, 1565, 1566, 1566, 1567, 1567, 1567, 1568, 1568, 1569, 1569, 1570, 1570, 1571, 1571, 1572, 1572, 1572, 1573, 1573,
  1574, 1574, 1575, 1575, 1576, 1576, 1576, 1577, 1577, 1578, 1578, 1579, 1579, 1579, 1580, 1580, 1581, 1581, 1581, 1582,
  1582, 1583, 1583, 1584, 1584, 1584, 1585, 1585, 1586, 1586, 1586, 1587, 1587, 1587, 1588, 1588, 1589, 1589, 1589, 1590,
  1590, 1591, 1591, 1591, 1592, 1592, 1592, 1593, 1593, 1594, 1594, 1594, 1595, 1595, 1595, 1596, 1596, 1596, 1597, 1597,
  1598, 1598, 1598, 1599, 1599, 1599, 1600, 1600, 1600, 1601, 1601, 1601, 1602, 1602, 1602, 1603, 1603, 1603, 1604, 1604,
  1604, 1605, 1605, 1605, 1606, 1606, 1606, 1607, 1607, 1607, 1608, 1608, 1608, 1609, 1609, 1609, 1610, 1610, 1610, 1610,
  1611
>>

DisplayPercentTable == <<
  300, 304, 307, 309, 311, 313, 315, 316, 318, 319, 321, 322, 324, 325, 326, 328, 329, 330, 331, 333,
  334, 335, 336, 337, 338, 339, 341, 342, 343, 344, 345, 346, 347, 348, 349, 350, 351, 352, 353, 354,
  355, 356, 357, 358, 359, 360, 360, 361, 362, 363, 364, 365, 366, 367, 368, 369, 369, 370, 371, 372,
  373, 374, 375, 375, 376, 377, 378, 379, 380, 380, 381, 382, 383, 384, 384, 385, 386, 387, 388, 388,
  389, 390, 391, 391, 392, 393, 394, 395, 395, 396, 397, 398, 398, 399, 400, 401, 401, 402, 403, 403,
  404, 405, 406, 406, 407, 408, 409, 409, 410, 411, 411, 412, 413, 413, 414, 415, 416, 416, 417, 418,
  418, 419, 420, 420, 421, 422, 422, 423, 424, 425, 425, 426, 427, 427, 428, 429, 429, 430, 431, 431,
  432, 433, 433, 434, 434, 435, 436, 436, 437, 438, 438, 439, 440, 440, 441, 442, 442, 443, 444, 444,
  445, 445, 446, 447, 447, 448, 449, 449, 450, 450, 451, 452, 452, 453, 454, 454, 455, 455, 456, 457,
  457, 458, 458, 459, 460, 460, 461, 461, 462, 463, 463, 464, 464, 465, 466, 466, 467, 467, 468, 469,
  469, 470, 470, 471, 472, 472, 473, 473, 474, 475, 475, 476, 476, 477, 477, 478, 479, 479, 480, 480,
  481, 482, 482, 483, 483, 484, 484, 485, 486, 486, 487, 487, 488, 488, 489, 489, 490, 491, 491, 492,
  492, 493, 493, 494, 495, 495, 496, 496, 497, 497, 498, 498, 499, 500, 500, 501, 501, 502, 502, 503,
  503, 504, 504, 505, 506, 506, 507, 507, 508, 508, 509, 509, 510, 510, 511, 512, 512, 513, 513, 514,
  514, 515, 515, 516, 516, 517, 517, 518, 518, 519, 520, 520, 521, 521, 522, 522, 523, 523, 524, 524,
  525, 525, 526, 526, 527, 527, 528, 528, 529, 529, 530, 531, 531, 532, 532, 533, 533, 534, 534, 535,
  535, 536, 536, 537, 537, 538, 538, 539, 539, 540, 540, 541, 541, 542, 542, 543, 543, 544, 544, 545,
  545, 546, 546, 547, 547, 548, 548, 549, 549, 550, 550, 551, 551, 552, 552, 553, 553, 554, 554, 555,
  555, 556, 556, 557, 557, 558, 558, 559, 559, 560, 560, 561, 561, 562, 562, 563, 563, 564, 564, 565,
  565, 566, 566, 567, 567, 568, 568, 569, 569, 570, 570, 571, 571, 572, 572, 573, 573, 574, 574, 574,
  575, 575, 576, 576, 577, 577, 578, 578, 579, 579, 580, 580, 581, 581, 582, 582, 583, 583, 584, 584,
  584, 585, 585, 586, 586, 587, 587, 588, 588, 589, 589, 590, 590, 591, 591, 592, 592, 593, 593, 593,
  594, 594, 595, 595, 596, 596, 597, 597, 598, 598, 599, 599, 600, 600, 600, 601, 601, 602, 602, 603,
  603, 604, 604, 605, 605, 606, 606, 606, 607, 607, 608, 608, 609, 609, 610, 610, 611, 611, 611, 612,
  612, 613, 613, 614, 614, 615, 615, 616, 616, 616, 617, 617, 618, 618, 619, 619, 620, 620, 621, 621,
  621, 622, 622, 623, 623, 624, 624, 625, 625, 625, 626, 626, 627, 627, 628, 628, 629, 629, 629, 630,
  630, 631, 631, 632, 632, 633, 633, 633, 634, 634, 635, 635, 636, 636, 637, 637, 637, 638, 638, 639,
  639, 640, 640, 641, 641, 641, 642, 642, 643, 643, 644, 644, 644, 645, 645, 646, 646, 647, 647, 648,
  648, 648, 649, 649, 650, 650, 651, 651, 651, 652, 652, 653, 653, 654, 654, 654, 655, 655, 656, 656,
  657, 657, 657, 658, 658, 659, 659, 660, 660, 660, 661, 661, 662, 662, 663, 663, 663, 664, 664, 665,
  665, 666, 666, 666, 667, 667, 668, 668, 669, 669, 669, 670, 670, 671, 671, 672, 672, 672, 673, 673,
  674, 674, 675, 675, 675, 676, 676, 677, 677, 677, 678, 678, 679, 679, 680, 680, 680, 681, 681, 682,
  682, 682, 683, 683, 684, 684, 685, 685, 685, 686, 686, 687, 687, 687, 688, 688, 689, 689, 690, 690,
  690, 691, 691, 692, 692, 692, 693, 693, 694, 694, 695, 695, 695, 696, 696, 697, 697, 697, 698, 698,
  699, 699, 699, 700, 700, 701, 701, 701, 702, 702, 703, 703, 704, 704, 704, 705, 705, 706, 706, 706,
  707, 707, 708, 708, 708, 709, 709, 710, 710, 710, 711, 711, 712, 712, 712, 713, 713, 714, 714, 714,
  715, 715, 716, 716, 717, 717, 717, 718, 718, 719, 719, 719, 720, 720, 721, 721, 721, 722, 722, 723,
  723, 723, 724, 724, 725, 725, 725, 726, 726, 727, 727, 727, 728, 728, 729, 729, 729, 730, 730, 731,
  731, 731, 732, 732, 732, 733, 733, 734, 734, 734, 735, 735, 736, 736, 736, 737, 737, 738, 738, 738,
  739, 739, 740, 740, 740, 741, 741, 742, 742, 742, 743, 743, 744, 744, 744, 745, 745, 745, 746, 746,
  747, 747, 747, 748, 748, 749, 749, 749, 750, 750, 751, 751, 751, 752, 752, 752, 753, 753, 754, 754,
  754, 755, 755, 756, 756, 756, 757, 757, 758, 758, 758, 759, 759, 759, 760, 760, 761, 761, 761, 762,
  762, 763, 763, 763, 764, 764, 764, 765, 765, 766, 766, 766, 767, 767, 768, 768, 768, 769, 769, 769,
  770, 770, 771, 771, 771, 772, 772, 773, 773, 773, 774, 774, 774, 775, 775, 776, 776, 776, 777, 777,
  777, 778, 778, 779, 779, 779, 780, 780, 781, 781, 781, 782, 782, 782, 783, 783, 784, 784, 784, 785,
  785, 785, 786, 786, 787, 787, 787, 788, 788, 788, 789, 789, 790, 790, 790, 791, 791, 791, 792, 792,
  793, 793, 793, 794, 794, 794, 795, 795, 796, 796, 796, 797, 797, 797, 798, 798, 799, 799, 799, 800,
  800, 800, 801, 801, 802, 802, 802, 803, 803, 803, 804, 804, 804, 805, 805, 806, 806, 806, 807, 807,
  807, 808, 808, 809, 809, 809, 810, 810, 810, 811, 811, 812, 812, 812, 813, 813, 813, 814, 814, 814,
  815, 815, 816, 816, 816, 817, 817, 817, 818, 818, 819, 819, 819, 820, 820, 820, 821, 821, 821, 822,
  822, 823, 823, 823, 824, 824, 824, 825, 825, 825, 826, 826, 827, 827, 827, 828, 828, 828, 829, 829,
  829, 830, 830, 831, 831, 831, 832, 832, 832, 833, 833, 833, 834, 834, 835, 835, 835, 836, 836, 836,
  837, 837, 837, 838, 838, 839, 839, 839, 840, 840, 840, 841, 841, 841, 842, 842, 842, 843, 843, 844,
  844, 844, 845, 845, 845, 846, 846, 846, 847, 847, 847, 848, 848, 849, 849, 849, 850, 850, 850, 851,
  851, 851, 852, 852, 852, 853, 853, 854, 854, 854, 855, 855, 855, 856, 856, 856, 857, 857, 857, 858,
  858, 859, 859, 859, 860, 860, 860, 861, 861, 861, 862, 862, 862, 863, 863, 864, 864, 864, 865, 865,
  865, 866, 866, 866, 867, 867, 867, 868, 868, 868, 869, 869, 870, 870, 870, 871, 871, 871, 872, 872,
  872, 873, 873, 873, 874, 874, 874, 875, 875, 875, 876, 876, 877, 877, 877, 878, 878, 878, 879, 879,
  879, 880, 880, 880, 881, 881, 881, 882, 882, 882, 883, 883, 884, 884, 884, 885, 885, 885, 886, 886,
  886, 887, 887, 887, 888, 888, 888, 889, 889, 889, 890, 890, 890, 891, 891, 892, 892, 892, 893, 893,
  893, 894, 894, 894, 895, 895, 895, 896, 896, 896, 897, 897, 897, 898, 898, 898, 899, 899, 899, 900,
  900, 900, 901, 901, 902, 902, 902, 903, 903, 903, 904, 904, 904, 905, 905, 905, 906, 906, 906, 907,
  907, 907, 908, 908, 908, 909, 909, 909, 910, 910, 910, 911, 911, 911, 912, 912, 912, 913, 913, 914,
  914, 914, 915, 915, 915, 916, 916, 916, 917, 917, 917, 918, 918, 918, 919, 919, 919, 920, 920, 920,
  921, 921, 921, 922, 922, 922, 923, 923, 923, 924, 924, 924, 925, 925, 925, 926, 926, 926, 927, 927,
  927, 928, 928, 928, 929, 929, 929, 930, 930, 930, 931, 931, 931, 932, 932, 932, 933, 933, 934, 934,
  934, 935, 935, 935, 936, 936, 936, 937, 937, 937, 938, 938, 938, 939, 939, 939, 940, 940, 940, 941,
  941, 941, 942, 942, 942, 943, 943, 943, 944, 944, 944, 945, 945, 945, 946, 946, 946, 947, 947, 947,
  948, 948, 948, 949, 949, 949, 950, 950, 950, 951, 951, 951, 952, 952, 952, 953, 953, 953, 954, 954,
  954, 955, 955, 955, 956, 956, 956, 957, 957, 957, 958, 958, 958, 959, 959, 959, 960, 960, 960, 961,
  961, 961, 962, 962, 962, 962, 963, 963, 963, 964, 964, 964, 965, 965, 965, 966, 966, 966, 967, 967,
  967, 968, 968, 968, 969, 969, 969, 970, 970, 970, 971, 971, 971, 972, 972, 972, 973, 973, 973, 974,
  974, 974, 975, 975, 975, 976, 976, 976, 977, 977, 977, 978, 978, 978, 979, 979, 979, 980, 980, 980,
  981, 981, 981, 982, 982, 982, 982, 983, 983, 983, 984, 984, 984, 985, 985, 985, 986, 986, 986, 987,
  987, 987, 988, 988, 988, 989, 989, 989, 990, 990, 990, 991, 991, 991, 992, 992, 992, 993, 993, 993,
  994, 994, 994, 995, 995, 995, 995, 996, 996, 996, 997, 997, 997, 998, 998, 998, 999, 999, 999, 1000,
  1000
>>

\* 2 * atan(r) for r in 1/RatioUnit, interpolated linearly between the two
\* neighbouring entries of the table
RatioUnit == 10^4
TwoAtanDeg(ratio) ==
  LET k == ratio \div (RatioUnit \div 100)
      f == ratio % (RatioUnit \div 100)
  IN  IF k + 1 >= Len(TwoAtanDegTable)
        THEN TwoAtanDegTable[Len(TwoAtanDegTable)]
        ELSE TwoAtanDegTable[k + 1]
               + ((TwoAtanDegTable[k + 2] - TwoAtanDegTable[k + 1]) * f) \div (RatioUnit \div 100)

minAngle == 28 * AngUnit
maxAngle == 180 * AngUnit

\* !v || v <= 0 || isNaN(v)
Invalid(v) == v = Null \/ v = NaN \/ v <= 0

\* calculateAngularSize(screenWidth, distanceToMonitor):
\* 2 * atan(widthInMeters / (2 * distance)), widthInMeters = screenWidth * 0.0254 / 96;
\* the ratio is 0.0254 * width / (192 * distance) = 158750 * width / (12 * distance)
\* in 1/RatioUnit with the distance in 1/DistUnit metre
calculateAngularSize(width, distanceToMonitor) ==
  IF Invalid(width) \/ Invalid(distanceToMonitor)
    THEN minAngle
    ELSE TwoAtanDeg((158750 * width) \div (12 * distanceToMonitor))

\* Mutant: the percent starts at the former minPercent 50.
angularSizeToDisplayPercent_Min50(angularSize) ==
  LET clampedAngle == MathMax(minAngle, MathMin(maxAngle, angularSize))
  IN  IF clampedAngle = NaN THEN NaN
      ELSE MathMax(50 * PctUnit, DisplayPercentTable[clampedAngle - minAngle + 1])

\* angularSizeToDisplayPercent(angularSize): 30 + 70 * normalized^0.7, tabulated by
\* the clamped angle
angularSizeToDisplayPercent(angularSize) ==
  LET clampedAngle == MathMax(minAngle, MathMin(maxAngle, angularSize))
  IN  IF clampedAngle = NaN THEN NaN
      ELSE DisplayPercentTable[clampedAngle - minAngle + 1]

minDistance == DistUnit \div 10
maxDistance == (15 * DistUnit) \div 10

\* Mutant: the distance is returned without the clamp.
zTranslationToDistance_Unclamped(zTranslation, minD, maxD) ==
  IF zTranslation = Null \/ zTranslation = NaN
    THEN (minD + maxD) \div 2
    ELSE (52 * DistUnit) \div 100
           + (52 * 35 * (zTranslation + (495 * ZUnit) \div 10))
               \div ((100 * 1000 * ZUnit) \div DistUnit)

\* Mutant: the distance shrinks when z grows.
zTranslationToDistance_SignFlipped(zTranslation, minD, maxD) ==
  IF zTranslation = Null \/ zTranslation = NaN
    THEN (minD + maxD) \div 2
    ELSE LET deltaZ      == zTranslation + (495 * ZUnit) \div 10
             newDistance == (52 * DistUnit) \div 100
                              - (52 * 35 * deltaZ) \div ((100 * 1000 * ZUnit) \div DistUnit)
         IN  MathMax(minD, MathMin(maxD, newDistance))

\* zTranslationToDistance(zTranslation, minDistance, maxDistance):
\* 0.52 * (1 + (z + 49.5) * 0.035), clamped; the midpoint for null or NaN
zTranslationToDistance(zTranslation, minD, maxD) ==
  IF zTranslation = Null \/ zTranslation = NaN
    THEN (minD + maxD) \div 2
    ELSE LET deltaZ      == zTranslation + (495 * ZUnit) \div 10
             newDistance == (52 * DistUnit) \div 100
                              + (52 * 35 * deltaZ) \div ((100 * 1000 * ZUnit) \div DistUnit)
         IN  MathMax(minD, MathMin(maxD, newDistance))

\* smoothValue(current, previous, smoothingFactor) = lerp(previous, current, 1 - smoothingFactor),
\* the factor in tenths
smoothValue(cur, previous, factor) ==
  Add(previous, DivBy(Mul(Sub(cur, previous), Tenths - factor), Tenths))

(***************************************************************************)
(* ViewportManager                                                         *)
(***************************************************************************)
initialDisplayPercent == 50 * PctUnit
minDisplayPercent     == 30 * PctUnit
maxDisplayPercent     == 100 * PctUnit
\* boundarySmoothing = 0.3, in tenths
boundarySmoothing == 3
\* minAbsoluteThreshold = 0.1 pixel
minAbsoluteThreshold == OffUnit \div 10

\* 100 / displayPercent as the fraction <<n, d>>.
ScaleOf(displayPercent) == <<100 * PctUnit, displayPercent>>

VARIABLES
  \* ViewportManager
  imageWidth, imageHeight,      \* constructor arguments, pixels
  currentDisplayPercent, scale, offsetX, offsetY,
  vpCall,                       \* the last ViewportManager call and its arguments
  \* HeadTrackingController
  screenWidth,
  baseTranslationX, baseTranslationY, baseTranslationZ, baseInitialized,
  baseStablePointX, baseStablePointY, baseStablePointZ,
  previousTranslationZ,
  sensitivityX, sensitivityY, sensitivityZ,
  current,                      \* currentDistance, currentAngularSize, currentDisplayPercent
  frameCount,                   \* _frameCount
  ctlCall,                      \* the last controller call: arguments, locals, return value
  \* ImageRenderer
  renderCall,                   \* the last drawImage of ImageRenderer.render
  \* PanoTestApp
  isRunning, lastFrameTime, frameInterval,
  now,                          \* the last reading of performance.now()
  pendingTicks,                 \* requestAnimationFrame callbacks scheduled and not yet run
  frameLog,                     \* the last run of processFrames: its caller and its branch
  ui,                           \* the sensitivity sliders and the axis checkboxes; whether
                                \* the controls are set up, whether dispose() was called
  \* math-utils
  mathCall                      \* the last calls of a math-utils function: arguments, results

vpVars  == <<imageWidth, imageHeight, currentDisplayPercent, scale, offsetX, offsetY, vpCall>>
ctlVars == <<screenWidth, baseTranslationX, baseTranslationY, baseTranslationZ, baseInitialized,
             baseStablePointX, baseStablePointY, baseStablePointZ, previousTranslationZ,
             sensitivityX, sensitivityY, sensitivityZ, current, frameCount, ctlCall>>
appVars == <<renderCall, isRunning, lastFrameTime, frameInterval, now, pendingTicks,
             frameLog, ui, mathCall>>
vars    == <<vpVars, ctlVars, appVars>>

\* The record kept of a call: its name, its arguments, and whether it was made in
\* a state other than the construction state.
VpCall(op, pct, x, y) ==
  [op |-> op, pct |-> pct, x |-> x, y |-> y,
   dirty |-> <<currentDisplayPercent, scale, offsetX, offsetY>>
               # <<initialDisplayPercent, ScaleOf(initialDisplayPercent), 0, 0>>]

\* Mutant: a constructor that starts at the full image (100%, scale 1).
ViewportManager_FullImage(w, h) ==
  /\ imageWidth = w
  /\ imageHeight = h
  /\ currentDisplayPercent = maxDisplayPercent
  /\ scale = ScaleOf(maxDisplayPercent)
  /\ offsetX = 0
  /\ offsetY = 0

\* constructor(imageWidth, imageHeight, screenWidth, screenHeight)
ViewportManager(w, h) ==
  /\ imageWidth = w
  /\ imageHeight = h
  /\ currentDisplayPercent = initialDisplayPercent
  /\ scale = ScaleOf(initialDisplayPercent)
  /\ offsetX = 0
  /\ offsetY = 0

\* Mutant: the lower clamp is forgotten.
ClampDisplayPercent_NoMin(displayPercent) == MathMin(maxDisplayPercent, displayPercent)

\* Math.max(this.minDisplayPercent, Math.min(100, displayPercent))
ClampDisplayPercent(displayPercent) ==
  MathMax(minDisplayPercent, MathMin(maxDisplayPercent, displayPercent))

\* updateDisplayPercent(displayPercent)
updateDisplayPercent(displayPercent) ==
  /\ currentDisplayPercent' = ClampDisplayPercent(displayPercent)
  /\ scale' = ScaleOf(ClampDisplayPercent(displayPercent))

\* (imageDimension * (scale - 1)) / (2 * scale), with scale = n / d
MaxOffset(imageDimension, s) ==
  (imageDimension * OffUnit * (s[1] - s[2])) \div (2 * s[1])

\* Mutant: a hard clamp.
clampWithSmoothing_Hard(value, min, max) ==
  IF Lt(value, min) THEN min ELSE IF Gt(value, max) THEN max ELSE value

\* clampWithSmoothing(value, min, max)
clampWithSmoothing(value, min, max) ==
  IF Lt(value, min)
    THEN min + ((value - min) * boundarySmoothing) \div Tenths
    ELSE IF Gt(value, max)
      THEN max + ((value - max) * boundarySmoothing) \div Tenths
      ELSE value

\* newOffsetX / newOffsetY of updateOffset, the sensitivity argument being 1.0
\* Mutant: below the threshold the stored offset is kept.
NewOffsetX_Holds(absoluteOffsetX) ==
  IF Gt(Abs(absoluteOffsetX), minAbsoluteThreshold) THEN absoluteOffsetX ELSE offsetX

NewOffsetX(absoluteOffsetX) ==
  IF Gt(Abs(absoluteOffsetX), minAbsoluteThreshold) THEN absoluteOffsetX ELSE 0
\* Mutant: Y is stored without the inversion.
NewOffsetY_NoFlip(absoluteOffsetY) ==
  IF Gt(Abs(absoluteOffsetY), minAbsoluteThreshold) THEN absoluteOffsetY ELSE 0

NewOffsetY(absoluteOffsetY) ==
  IF Gt(Abs(absoluteOffsetY), minAbsoluteThreshold) THEN 0 - absoluteOffsetY ELSE 0

\* Mutant: the candidate is added to the stored offset.
updateOffset_Accumulates(absoluteOffsetX, absoluteOffsetY, s) ==
  /\ offsetX' = clampWithSmoothing(offsetX + NewOffsetX(absoluteOffsetX),
                                   0 - MaxOffset(imageWidth, s), MaxOffset(imageWidth, s))
  /\ offsetY' = clampWithSmoothing(offsetY + NewOffsetY(absoluteOffsetY),
                                   0 - MaxOffset(imageHeight, s), MaxOffset(imageHeight, s))

\* updateOffset(absoluteOffsetX, absoluteOffsetY), reading the scale s
updateOffset(absoluteOffsetX, absoluteOffsetY, s) ==
  /\ offsetX' = clampWithSmoothing(NewOffsetX(absoluteOffsetX),
                                   0 - MaxOffset(imageWidth, s), MaxOffset(imageWidth, s))
  /\ offsetY' = clampWithSmoothing(NewOffsetY(absoluteOffsetY),
                                   0 - MaxOffset(imageHeight, s), MaxOffset(imageHeight, s))

\* Mutant: a reset that restores the zoom but keeps the pan.
reset_KeepsPan ==
  /\ currentDisplayPercent' = initialDisplayPercent
  /\ scale' = ScaleOf(initialDisplayPercent)
  /\ UNCHANGED <<offsetX, offsetY>>

\* reset()
reset ==
  /\ currentDisplayPercent' = initialDisplayPercent
  /\ scale' = ScaleOf(initialDisplayPercent)
  /\ offsetX' = 0
  /\ offsetY' = 0

(***************************************************************************)
(* HeadTrackingController                                                  *)
(***************************************************************************)
\* minChangeThreshold = 0.001, minZThreshold = 0.0001
minChangeThreshold == PosUnit \div 1000
minZThreshold      == ZUnit \div 10000
\* smoothingFactor = 0.7, in tenths
smoothingFactor == 7
\* the logging period of _frameCount
LogEvery == 30
\* constructor defaults: sensitivityX, sensitivityY, sensitivityZ = 0.005
DefaultSensitivityX == 3440
DefaultSensitivityY == 1780
DefaultSensitivityZ == (5 * SensZUnit) \div 1000

\* A pose-source result: null, an object without translation, or a pose with a
\* translation and an optional stable point.
NullResult == [kind |-> "null", tx |-> 0, ty |-> 0, tz |-> 0,
               hasSP |-> FALSE, spx |-> 0, spy |-> 0, spz |-> 0]
NoTranslation == [NullResult EXCEPT !.kind = "noTranslation"]
Pose(tx, ty, tz) == [NullResult EXCEPT !.kind = "pose", !.tx = tx, !.ty = ty, !.tz = tz]
PoseSP(tx, ty, tz, spx, spy, spz) ==
  [Pose(tx, ty, tz) EXCEPT !.hasSP = TRUE, !.spx = spx, !.spy = spy, !.spz = spz]

\* What processHeadPose returns: null, a result object, or a thrown TypeError.
NoReturn == [kind |-> "none", displayPercent |-> 0, offsetX |-> 0, offsetY |-> 0,
             distance |-> 0, angularSize |-> 0]
ReturnNull  == [NoReturn EXCEPT !.kind = "null"]
ReturnThrow == [NoReturn EXCEPT !.kind = "throw"]

NoLocals == [deltaX |-> 0, deltaY |-> 0, deltaZ |-> 0, smoothDeltaZ |-> 0]

\* The record kept of a call: its name, argument, locals and return value; and
\* whether resetBasePosition was called since the last sample that was processed,
\* with the value baseInitialized had before the first such reset.
CtlCall(op, sample, locals, ret) ==
  [op |-> op, sample |-> sample, locals |-> locals, ret |-> ret,
   pendingReset |-> IF op = "resetBasePosition" THEN TRUE
                    ELSE IF op = "processHeadPose" /\ ret.kind # "null" THEN FALSE
                    ELSE ctlCall.pendingReset,
   initializedBefore |-> IF op = "resetBasePosition" /\ ~ctlCall.pendingReset
                           THEN baseInitialized
                           ELSE ctlCall.initializedBefore]

\* constructor(screenWidth, screenHeight)
HeadTrackingController(width) ==
  /\ screenWidth = width
  /\ baseTranslationX = Null /\ baseTranslationY = Null /\ baseTranslationZ = Null
  /\ baseInitialized = FALSE
  /\ baseStablePointX = Null /\ baseStablePointY = Null /\ baseStablePointZ = Null
  /\ previousTranslationZ = 0
  /\ sensitivityX = DefaultSensitivityX
  /\ sensitivityY = DefaultSensitivityY
  /\ sensitivityZ = DefaultSensitivityZ
  /\ current = [distance |-> Null, angularSize |-> Null, displayPercent |-> 50 * PctUnit]
  /\ frameCount = 0

\* setSensitivity(sensitivityX, sensitivityY, sensitivityZ)
setSensitivity(sx, sy, sz) ==
  /\ sensitivityX' = sx
  /\ sensitivityY' = sy
  /\ sensitivityZ' = sz

\* Mutant: the reset forgets the Z baseline as well.
resetBasePosition_ClearsZ ==
  /\ baseInitialized' = TRUE
  /\ baseTranslationX' = Null
  /\ baseTranslationY' = Null
  /\ baseStablePointX' = Null
  /\ baseStablePointY' = Null
  /\ baseStablePointZ' = Null
  /\ baseTranslationZ' = Null

\* resetBasePosition()
resetBasePosition ==
  /\ baseInitialized' = TRUE
  /\ baseTranslationX' = Null
  /\ baseTranslationY' = Null
  /\ baseStablePointX' = Null
  /\ baseStablePointY' = Null
  /\ baseStablePointZ' = Null
  /\ UNCHANGED baseTranslationZ

\* Mutant: the stable-point baseline is taken anew from every sample.
CapturesStablePoint_Always(sample) == sample.hasSP

\* processHeadPose, lines 101-112: is the stable-point baseline captured by this sample
CapturesStablePoint(sample) == sample.hasSP /\ baseStablePointX = Null

\* processHeadPose, lines 117-129: is the translation baseline captured by the fallback
CapturesFallback(sample) == ~sample.hasSP /\ ~baseInitialized

\* the baselines as they stand after the capture steps of lines 101-139
NewBaseStablePoint(sample) ==
  IF CapturesStablePoint(sample)
    THEN <<sample.spx, sample.spy, sample.spz>>
    ELSE <<baseStablePointX, baseStablePointY, baseStablePointZ>>

NewBaseTranslation(sample) ==
  IF CapturesFallback(sample)
    THEN <<sample.tx, sample.ty, sample.tz>>
    ELSE IF ~baseInitialized
      THEN <<baseTranslationX, baseTranslationY, sample.tz>>
      ELSE <<baseTranslationX, baseTranslationY, baseTranslationZ>>

\* deltaX, deltaY (lines 115-116, 131-132)
DeltaXY(sample) ==
  IF sample.hasSP
    THEN <<Sub(sample.spx, NewBaseStablePoint(sample)[1]),
           Sub(sample.spy, NewBaseStablePoint(sample)[2])>>
    ELSE <<Sub(sample.tx, NewBaseTranslation(sample)[1]),
           Sub(sample.ty, NewBaseTranslation(sample)[2])>>

\* Mutant: the noise gate lets a delta of exactly the threshold through.
AbsoluteOffset_GateInclusive(hasSP, point, base, sensitivity) ==
  IF hasSP /\ base # Null /\ ~Lt(Abs(Sub(point, base)), minChangeThreshold)
    THEN Mul(Sub(point, base), sensitivity)
    ELSE 0

\* absoluteOffsetX / absoluteOffsetY, lines 160-185
AbsoluteOffset(hasSP, point, base, sensitivity) ==
  IF hasSP /\ base # Null /\ Gt(Abs(Sub(point, base)), minChangeThreshold)
    THEN Mul(Sub(point, base), sensitivity)
    ELSE 0

\* Mutant: below the threshold the smoothing state is kept.
SmoothDeltaZ_Frozen(deltaZ) ==
  IF Gt(Abs(deltaZ), minZThreshold)
    THEN smoothValue(deltaZ, previousTranslationZ, smoothingFactor)
    ELSE previousTranslationZ

\* smoothDeltaZ, lines 189-199
SmoothDeltaZ(deltaZ) ==
  IF Gt(Abs(deltaZ), minZThreshold)
    THEN smoothValue(deltaZ, previousTranslationZ, smoothingFactor)
    ELSE 0

\* distance, lines 204-217: effectiveSensitivityZ = sensitivityZ * 2.5
Distance(baseZ, smoothDeltaZ) ==
  LET baseDistance   == zTranslationToDistance(baseZ, minDistance, maxDistance)
      distanceChange == Sub(0, DivBy(Mul(smoothDeltaZ, sensitivityZ),
                                     (10 * ZUnit * SensZUnit) \div (25 * DistUnit)))
  IN  MathMax(minDistance, MathMin(maxDistance, Add(baseDistance, distanceChange)))

\* the first line that throws, if any: line 153 formats this.baseTranslationZ with
\* toFixed on every LogEvery-th frame
Throws(sample) ==
  (frameCount + 1) % LogEvery = 0 /\ NewBaseTranslation(sample)[3] = Null

\* processHeadPose(mediaPipeResult)
processHeadPose(sample) ==
  IF sample.kind # "pose"
    THEN /\ ctlCall' = CtlCall("processHeadPose", sample, NoLocals, ReturnNull)
         /\ UNCHANGED <<screenWidth, baseTranslationX, baseTranslationY, baseTranslationZ,
                        baseInitialized, baseStablePointX, baseStablePointY,
                        baseStablePointZ, previousTranslationZ, sensitivityX,
                        sensitivityY, sensitivityZ, current, frameCount>>
    ELSE
      \* each local is computed once, in the order of the code
      \E bsp \in {NewBaseStablePoint(sample)}, bt \in {NewBaseTranslation(sample)} :
      \E deltaZ \in {Sub(sample.tz, bt[3])} :
      \E smoothDeltaZ \in {SmoothDeltaZ(deltaZ)} :
      \E distance \in {Distance(bt[3], smoothDeltaZ)} :
      \E angularSize \in {calculateAngularSize(screenWidth, distance)} :
      \E displayPercent \in {angularSizeToDisplayPercent(angularSize)} :
      LET locals == [deltaX |-> DeltaXY(sample)[1], deltaY |-> DeltaXY(sample)[2],
                     deltaZ |-> deltaZ, smoothDeltaZ |-> smoothDeltaZ]
          result == [kind |-> "result",
                     displayPercent |-> displayPercent,
                     offsetX |-> AbsoluteOffset(sample.hasSP, sample.spx, bsp[1], sensitivityX),
                     offsetY |-> AbsoluteOffset(sample.hasSP, sample.spy, bsp[2], sensitivityY),
                     distance |-> distance,
                     angularSize |-> angularSize]
      IN  /\ baseStablePointX' = bsp[1]
          /\ baseStablePointY' = bsp[2]
          /\ baseStablePointZ' = bsp[3]
          /\ baseTranslationX' = bt[1]
          /\ baseTranslationY' = bt[2]
          /\ baseTranslationZ' = bt[3]
          /\ baseInitialized' = TRUE
          /\ frameCount' = frameCount + 1
          /\ UNCHANGED <<screenWidth, sensitivityX, sensitivityY, sensitivityZ>>
          /\ IF Throws(sample)
               THEN /\ ctlCall' = CtlCall("processHeadPose", sample,
                                          [locals EXCEPT !.smoothDeltaZ = 0], ReturnThrow)
                    /\ UNCHANGED <<previousTranslationZ, current>>
               ELSE /\ previousTranslationZ' = smoothDeltaZ
                    /\ current' = [distance |-> distance, angularSize |-> angularSize,
                                   displayPercent |-> displayPercent]
                    /\ ctlCall' = CtlCall("processHeadPose", sample, locals, result)

(***************************************************************************)
(* ImageRenderer (src/unnamed/part_004)                                    *)
(***************************************************************************)
NoRender == [op |-> "none", displayWidth |-> 0, displayHeight |-> 0,
             sourceX |-> 0, sourceY |-> 0, clampedSourceX |-> 0, clampedSourceY |-> 0]

\* Mutant: the source rectangle is drawn where the offsets put it.
ClampSource_None(source, limit) == source

\* Math.max(0, Math.min(image.width - displayWidth, sourceX))
ClampSource(source, limit) == MathMax(0, MathMin(limit, source))

\* render(scale, offsetX, offsetY) with the image loaded: the arguments of drawImage,
\* in 1/OffUnit pixel of the image
render(s, ox, oy) ==
  LET displayWidth  == (imageWidth * OffUnit * s[2]) \div s[1]
      displayHeight == (imageHeight * OffUnit * s[2]) \div s[1]
      sourceX == Add((imageWidth * OffUnit) \div 2 - displayWidth \div 2, ox)
      sourceY == Add((imageHeight * OffUnit) \div 2 - displayHeight \div 2, oy)
  IN  [op |-> "render", displayWidth |-> displayWidth, displayHeight |-> displayHeight,
       sourceX |-> sourceX, sourceY |-> sourceY,
       clampedSourceX |-> ClampSource(sourceX, imageWidth * OffUnit - displayWidth),
       clampedSourceY |-> ClampSource(sourceY, imageHeight * OffUnit - displayHeight)]

(***************************************************************************)
(* PanoTestApp (src/src/main.js)                                           *)
(***************************************************************************)
\* time in 1/TimeUnit millisecond, so that 1000 / 30 and 1000 / 15 are whole
TimeUnit == 3

\* 1000 / fps
FrameIntervalOf(fps) == (1000 * TimeUnit) \div fps

\* defaults of loadSensitivityFromStorage and setupSensitivityControls
defaultSensitivityX == 1000
defaultSensitivityY == 1000
defaultSensitivityZ == (25 * SensZUnit) \div 1000
defaultFPS == 30

\* the range inputs: min, max of the X/Y sliders and of the Z slider
sliderMaxXY == 3500
sliderMaxZ  == (3 * SensZUnit) \div 100

\* The last run of start, stop or processFrames: who ran, the branch taken, and the
\* kind of pose sample acquired ("none" when mediaPipeHandler.processFrame was not
\* called).
FrameLog(caller, kind, acquired) == [caller |-> caller, kind |-> kind, acquired |-> acquired]

\* constructor(): nothing runs, nothing is drawn, 30 frames per second
PanoTestApp ==
  /\ renderCall = NoRender
  /\ isRunning = FALSE
  /\ lastFrameTime = 0
  /\ frameInterval = FrameIntervalOf(30)
  /\ now = 0
  /\ pendingTicks = 0
  /\ frameLog = FrameLog("constructor", "none", "none")
  /\ ui = [ready |-> FALSE, disposed |-> FALSE,
           enableX |-> TRUE, enableY |-> TRUE, enableZ |-> TRUE,
           sliderX |-> defaultSensitivityX, sliderY |-> defaultSensitivityY,
           sliderZ |-> defaultSensitivityZ]

\* no math-utils function called on its own
NoMathCall == [op |-> "none", a |-> 0, b |-> 0, ra |-> 0, rb |-> 0]

\* Math.round(restoredZ * 1000) / 1000
RoundTo3(v) == IF v = NaN THEN NaN ELSE ((v + SensZUnit \div 2000) \div (SensZUnit \div 1000))
                                          * (SensZUnit \div 1000)

\* loadSensitivityFromStorage(): the restored X, Y, Z for the stored items (Null for
\* an item that is absent); a stored Z above 1 is taken as thousandths
loadSensitivityFromStorage(savedX, savedY, savedZ) ==
  <<IF savedX = Null THEN defaultSensitivityX ELSE savedX,
    IF savedY = Null THEN defaultSensitivityY ELSE savedY,
    IF savedZ = Null THEN defaultSensitivityZ
    ELSE RoundTo3(IF Gt(savedZ, SensZUnit) THEN DivBy(savedZ, 1000) ELSE savedZ)>>

\* what a range input holds after its value is set: the value within [0, max], the
\* middle of the range for a value that is no number
SliderValue(v, max) == IF v = NaN THEN max \div 2 ELSE MathMax(0, MathMin(max, v))

\* savedEnable !== null ? savedEnable === 'true' : true, the stored item being
\* "true", "false" or "absent"
EnableOf(saved) == IF saved = "absent" THEN TRUE ELSE saved = "true"

\* the controller sensitivity of an axis: the value if the axis is enabled, else 0
Effective(enabled, value) == IF enabled THEN value ELSE 0

\* Mutant: applySensitivity ignores the checkboxes.
applySensitivity_IgnoresFlags(u) == setSensitivity(u.sliderX, u.sliderY, u.sliderZ)

\* applySensitivity(), reading the controls u
applySensitivity(u) ==
  setSensitivity(Effective(u.enableX, u.sliderX), Effective(u.enableY, u.sliderY),
                 Effective(u.enableZ, u.sliderZ))

\* Mutant: the pan is bounded with the scale of the frame before.
TrackedFrame_OldScale(sample) ==
  /\ processHeadPose(sample)
  /\ IF ctlCall'.ret.kind = "result"
       THEN /\ updateDisplayPercent(ctlCall'.ret.displayPercent)
            /\ updateOffset(ctlCall'.ret.offsetX, ctlCall'.ret.offsetY, scale)
            /\ vpCall' = VpCall("updateOffset", ctlCall'.ret.displayPercent,
                                ctlCall'.ret.offsetX, ctlCall'.ret.offsetY)
            /\ UNCHANGED <<imageWidth, imageHeight>>
            /\ renderCall' = render(scale', offsetX', offsetY')
       ELSE UNCHANGED <<vpVars, renderCall>>

\* lines 658-705 of processFrames: processHeadPose on the pose-source result, then
\* updateDisplayPercent, updateOffset and render if there is a tracking result. An
\* exception of processHeadPose leaves the rest of the frame undone.
TrackedFrame(sample) ==
  /\ processHeadPose(sample)
  /\ IF ctlCall'.ret.kind = "result"
       THEN /\ updateDisplayPercent(ctlCall'.ret.displayPercent)
            /\ updateOffset(ctlCall'.ret.offsetX, ctlCall'.ret.offsetY, scale')
            /\ vpCall' = VpCall("updateOffset", ctlCall'.ret.displayPercent,
                                ctlCall'.ret.offsetX, ctlCall'.ret.offsetY)
            /\ UNCHANGED <<imageWidth, imageHeight>>
            /\ renderCall' = render(scale', offsetX', offsetY')
       ELSE UNCHANGED <<vpVars, renderCall>>

\* Mutant: a frame without a face recentres the viewport.
FrameBody_ResetsOnNoFace(sample) ==
  IF sample.kind = "null"
    THEN /\ reset
         /\ vpCall' = VpCall("reset", 0, 0, 0)
         /\ renderCall' = render(scale', offsetX', offsetY')
         /\ UNCHANGED <<imageWidth, imageHeight, ctlVars>>
    ELSE TrackedFrame(sample)

\* lines 635-721 of processFrames for the acquired sample: nothing is done for a
\* null pose-source result
FrameBody(sample) ==
  IF sample.kind = "null"
    THEN UNCHANGED <<vpVars, ctlVars, renderCall>>
    ELSE TrackedFrame(sample)

\* mediaPipeHandler.processFrame: null once the handler is disposed, else any of
\* the samples
Acquired(samples) == IF ui.disposed THEN {NullResult} ELSE samples

\* Mutant: a processed frame stores the time of the call itself.
processFrames_StampsNow(caller, running, last, ticks, samples) ==
  IF ~running
    THEN /\ frameLog' = FrameLog(caller, "notRunning", "none")
         /\ lastFrameTime' = last
         /\ pendingTicks' = ticks
         /\ UNCHANGED <<vpVars, ctlVars, renderCall>>
    ELSE IF now' - last < frameInterval
      THEN /\ frameLog' = FrameLog(caller, "skipped", "none")
           /\ lastFrameTime' = last
           /\ pendingTicks' = ticks + 1
           /\ UNCHANGED <<vpVars, ctlVars, renderCall>>
      ELSE \E sample \in Acquired(samples) :
             /\ lastFrameTime' = now'
             /\ FrameBody(sample)
             /\ pendingTicks' = IF sample.kind # "null" /\ ctlCall'.ret.kind = "throw"
                                  THEN ticks ELSE ticks + 1
             /\ frameLog' = FrameLog(caller, "processed", sample.kind)

\* Mutant: no pacing, every call while running processes a frame.
processFrames_NoPacing(caller, running, last, ticks, samples) ==
  IF ~running
    THEN /\ frameLog' = FrameLog(caller, "notRunning", "none")
         /\ lastFrameTime' = last
         /\ pendingTicks' = ticks
         /\ UNCHANGED <<vpVars, ctlVars, renderCall>>
    ELSE \E sample \in Acquired(samples) :
           /\ lastFrameTime' = now' - ((now' - last) % frameInterval)
           /\ FrameBody(sample)
           /\ pendingTicks' = IF sample.kind # "null" /\ ctlCall'.ret.kind = "throw"
                                THEN ticks ELSE ticks + 1
           /\ frameLog' = FrameLog(caller, "processed", sample.kind)

\* processFrames(), called by `caller` with isRunning = running, lastFrameTime = last
\* and `ticks` callbacks pending, at the time now'
processFrames(caller, running, last, ticks, samples) ==
  IF ~running
    THEN /\ frameLog' = FrameLog(caller, "notRunning", "none")
         /\ lastFrameTime' = last
         /\ pendingTicks' = ticks
         /\ UNCHANGED <<vpVars, ctlVars, renderCall>>
    ELSE IF now' - last < frameInterval
      THEN /\ frameLog' = FrameLog(caller, "skipped", "none")
           /\ lastFrameTime' = last
           /\ pendingTicks' = ticks + 1
           /\ UNCHANGED <<vpVars, ctlVars, renderCall>>
      ELSE \E sample \in Acquired(samples) :
             /\ lastFrameTime' = now' - ((now' - last) % frameInterval)
             /\ FrameBody(sample)
             /\ pendingTicks' = IF sample.kind # "null" /\ ctlCall'.ret.kind = "throw"
                                  THEN ticks ELSE ticks + 1
             /\ frameLog' = FrameLog(caller, "processed", sample.kind)

(***************************************************************************)
(* The ViewportManager driven through its public methods.                  *)
(***************************************************************************)
MaxPercentStep == 11
MaxRawStep     == 4
ImageSizes     == {<<600, 400>>, <<1920, 1080>>}
PercentInputs  == {k * 10 * PctUnit : k \in 0..MaxPercentStep}
RawPositive    == {minAbsoluteThreshold, minAbsoluteThreshold + 10}
                    \cup {k * 70 * OffUnit : k \in 1..MaxRawStep}
RawOffsets     == {0} \cup RawPositive \cup {0 - r : r \in RawPositive}
RawYPositive   == {minAbsoluteThreshold + 10} \cup {k * 140 * OffUnit : k \in 1..(MaxRawStep \div 2)}
RawYOffsets    == {0} \cup RawYPositive \cup {0 - r : r \in RawYPositive}

VpInit(sizes) ==
  /\ \E size \in sizes : ViewportManager(size[1], size[2])
  /\ vpCall = [op |-> "constructor", pct |-> 0, x |-> 0, y |-> 0, dirty |-> FALSE]

VpUpdateDisplayPercent ==
  \E p \in PercentInputs :
    /\ updateDisplayPercent(p)
    /\ vpCall' = VpCall("updateDisplayPercent", p, 0, 0)
    /\ UNCHANGED <<imageWidth, imageHeight, offsetX, offsetY>>
    /\ UNCHANGED <<ctlVars, appVars>>

VpUpdateOffset ==
  \E x \in RawOffsets, y \in RawYOffsets :
    /\ updateOffset(x, y, scale)
    /\ vpCall' = VpCall("updateOffset", 0, x, y)
    /\ UNCHANGED <<imageWidth, imageHeight, currentDisplayPercent, scale>>
    /\ UNCHANGED <<ctlVars, appVars>>

VpReset ==
  /\ reset
  /\ vpCall' = VpCall("reset", 0, 0, 0)
  /\ UNCHANGED <<imageWidth, imageHeight>>
  /\ UNCHANGED <<ctlVars, appVars>>

ScreenWidths == {1366, 1920}

CtlInit(widths) ==
  /\ \E w \in widths : HeadTrackingController(w)
  /\ ctlCall = [op |-> "constructor", sample |-> NullResult, locals |-> NoLocals,
                ret |-> NoReturn, pendingReset |-> FALSE, initializedBefore |-> FALSE]

InitViewport ==
  VpInit(ImageSizes) /\ CtlInit({1920}) /\ PanoTestApp /\ mathCall = NoMathCall

NextViewport == VpUpdateDisplayPercent \/ VpUpdateOffset \/ VpReset

\* The ViewportManager alone, any sequence of its methods.
SpecViewport == InitViewport /\ [][NextViewport]_vars

(***************************************************************************)
(* The HeadTrackingController driven through its public methods.           *)
(***************************************************************************)
MaxFrames     == 3
MaxDeltaSteps == 2
Z0  == 0 - 50 * ZUnit
SP0 == PosUnit \div 2
StableXs == {SP0 + k * minChangeThreshold : k \in 0..MaxDeltaSteps} \cup {SP0 + PosUnit \div 100}
StableYs == {SP0, SP0 - minChangeThreshold, SP0 - 2 * minChangeThreshold}
TrackZs  == {Z0, Z0 + 2 * minZThreshold}
TrackXYs == {<<0, 0>>, <<5 * minChangeThreshold, 0 - 5 * minChangeThreshold>>}
\* With a stable point the translation's x and y are read by no line (163-181), so
\* they vary only in the samples without one.
TrackSamples ==
  {NullResult, NoTranslation}
    \cup {Pose(t[1], t[2], z) : t \in TrackXYs, z \in TrackZs}
    \cup {PoseSP(0, 0, z, x, y, 0) : z \in TrackZs, x \in StableXs, y \in StableYs}
SensitivityChoices == {<<DefaultSensitivityX, DefaultSensitivityY, DefaultSensitivityZ>>,
                       <<1000, 1000, (25 * SensZUnit) \div 1000>>}

CtlProcessHeadPose ==
  \E sample \in TrackSamples :
    /\ frameCount < MaxFrames
    /\ processHeadPose(sample)
    /\ UNCHANGED <<vpVars, appVars>>

CtlResetBasePosition ==
  /\ resetBasePosition
  /\ ctlCall' = CtlCall("resetBasePosition", NullResult, NoLocals, NoReturn)
  /\ UNCHANGED <<screenWidth, previousTranslationZ, sensitivityX, sensitivityY,
                 sensitivityZ, current, frameCount>>
  /\ UNCHANGED <<vpVars, appVars>>

CtlSetSensitivity ==
  \E c \in SensitivityChoices :
    /\ setSensitivity(c[1], c[2], c[3])
    /\ ctlCall' = CtlCall("setSensitivity", NullResult, NoLocals, NoReturn)
    /\ UNCHANGED <<screenWidth, baseTranslationX, baseTranslationY, baseTranslationZ,
                   baseInitialized, baseStablePointX, baseStablePointY, baseStablePointZ,
                   previousTranslationZ, current, frameCount>>
    /\ UNCHANGED <<vpVars, appVars>>

NextTracking == CtlProcessHeadPose \/ CtlResetBasePosition \/ CtlSetSensitivity

InitTracking ==
  VpInit({<<600, 400>>}) /\ CtlInit(ScreenWidths) /\ PanoTestApp /\ mathCall = NoMathCall

\* The HeadTrackingController alone, any sequence of its methods.
SpecTracking == InitTracking /\ [][NextTracking]_vars

(***************************************************************************)
(* PanoTestApp: one processed frame (main.js, processFrames lines 635-721)  *)
(* and the reset-to-centre button (resetToCenter).                         *)
(***************************************************************************)
FrameSamples ==
  {NullResult, NoTranslation}
    \cup {Pose(0, 0, z) : z \in {Z0, Z0 + 5 * ZUnit}}
    \cup {PoseSP(0, 0, z, x, y, 0) :
            z \in {Z0, Z0 + 5 * ZUnit},
            x \in {SP0, SP0 + 2 * minChangeThreshold, SP0 + PosUnit \div 2},
            y \in {SP0, SP0 - PosUnit \div 4}}

\* A frame that is due: mediaPipeHandler.processFrame yields the sample, and lines
\* 635-721 of processFrames run on it.
ProcessFrame ==
  \E sample \in FrameSamples :
    /\ frameCount < MaxFrames
    /\ FrameBody(sample)
    /\ UNCHANGED <<isRunning, lastFrameTime, frameInterval, now, pendingTicks, frameLog,
                   ui, mathCall>>

\* resetToCenter()
ResetToCenter ==
  /\ reset
  /\ vpCall' = VpCall("reset", 0, 0, 0)
  /\ UNCHANGED <<imageWidth, imageHeight>>
  /\ resetBasePosition
  /\ ctlCall' = CtlCall("resetBasePosition", NullResult, NoLocals, NoReturn)
  /\ UNCHANGED <<screenWidth, previousTranslationZ, sensitivityX, sensitivityY,
                 sensitivityZ, current, frameCount>>
  /\ renderCall' = render(scale', offsetX', offsetY')
  /\ UNCHANGED <<isRunning, lastFrameTime, frameInterval, now, pendingTicks, frameLog,
                 ui, mathCall>>

InitFrames ==
  VpInit({<<600, 400>>}) /\ CtlInit({1920}) /\ PanoTestApp /\ mathCall = NoMathCall

NextFrames == ProcessFrame \/ ResetToCenter \/ CtlSetSensitivity

\* The frame pipeline: pose sample, controller, viewport.
SpecFrames == InitFrames /\ [][NextFrames]_vars

\* A frame that is due, as ProcessFrame, on a sample at the baseline or away from it.
ResetsFrame ==
  \E sample \in {Pose(0, 0, Z0), PoseSP(0, 0, Z0, SP0, SP0, 0),
                 PoseSP(0, 0, Z0 + 5 * ZUnit, SP0 + PosUnit \div 100, SP0 - PosUnit \div 4, 0)} :
    /\ frameCount < MaxFrames
    /\ FrameBody(sample)
    /\ UNCHANGED <<isRunning, lastFrameTime, frameInterval, now, pendingTicks, frameLog,
                   ui, mathCall>>

\* The frame pipeline with the two resets called on their own.
NextResets == ResetsFrame \/ CtlResetBasePosition \/ VpReset \/ CtlSetSensitivity

SpecResets == InitFrames /\ [][NextResets]_vars

(***************************************************************************)
(* PanoTestApp: initialize(), start(), stop(), the animation-frame callback *)
(* and the controls.                                                       *)
(***************************************************************************)
\* localStorage as initialize() finds it: Null for a number that is absent
Storage(sx, sy, sz, ex, ey, ez, fps) ==
  [sensitivityX |-> sx, sensitivityY |-> sy, sensitivityZ |-> sz,
   enableX |-> ex, enableY |-> ey, enableZ |-> ez, fps |-> fps]
NoStorage == Storage(Null, Null, Null, "absent", "absent", "absent", Null)

\* the controls as setupSensitivityControls leaves them for the storage st
ControlsFor(st) ==
  LET restored == loadSensitivityFromStorage(st.sensitivityX, st.sensitivityY,
                                             st.sensitivityZ)
  IN  [ready |-> TRUE, disposed |-> FALSE,
       enableX |-> EnableOf(st.enableX), enableY |-> EnableOf(st.enableY),
       enableZ |-> EnableOf(st.enableZ),
       sliderX |-> SliderValue(restored[1], sliderMaxXY),
       sliderY |-> SliderValue(restored[2], sliderMaxXY),
       sliderZ |-> SliderValue(restored[3], sliderMaxZ)]

\* initialize(): loadSensitivityFromStorage, initializeComponents (first render),
\* setupSensitivityControls (lines 361-371 apply the restored values with the
\* checkboxes), setupFPSSelector
Initialize(storages) ==
  /\ ~ui.ready
  /\ \E st \in storages :
       LET restored == loadSensitivityFromStorage(st.sensitivityX, st.sensitivityY,
                                                  st.sensitivityZ)
       IN  /\ ui' = ControlsFor(st)
           /\ setSensitivity(Effective(EnableOf(st.enableX), restored[1]),
                             Effective(EnableOf(st.enableY), restored[2]),
                             Effective(EnableOf(st.enableZ), restored[3]))
           /\ frameInterval' = FrameIntervalOf(IF st.fps = Null THEN defaultFPS ELSE st.fps)
  /\ renderCall' = render(scale, offsetX, offsetY)
  /\ ctlCall' = CtlCall("setSensitivity", NullResult, NoLocals, NoReturn)
  /\ frameLog' = FrameLog("initialize", "none", "none")
  /\ UNCHANGED <<screenWidth, baseTranslationX, baseTranslationY, baseTranslationZ,
                 baseInitialized, baseStablePointX, baseStablePointY, baseStablePointZ,
                 previousTranslationZ, current, frameCount>>
  /\ UNCHANGED <<vpVars, isRunning, lastFrameTime, now, pendingTicks, mathCall>>

\* start(): performance.now() is read after the time `gap`; processFrames runs at once
start(gaps, maxTime, samples) ==
  /\ ui.ready
  /\ IF isRunning
       THEN /\ frameLog' = FrameLog("start", "alreadyRunning", "none")
            /\ UNCHANGED <<vpVars, ctlVars, renderCall, isRunning, lastFrameTime, now,
                           pendingTicks>>
       ELSE \E gap \in gaps :
              /\ now + gap <= maxTime
              /\ now' = now + gap
              /\ isRunning' = TRUE
              /\ processFrames("start", TRUE, now', pendingTicks, samples)
  /\ UNCHANGED <<frameInterval, ui, mathCall>>

\* Mutant: stop() leaves the scheduled callback in place.
stop_NoCancel ==
  /\ ui.ready
  /\ IF ~isRunning
       THEN /\ frameLog' = FrameLog("stop", "notRunning", "none")
            /\ UNCHANGED <<isRunning, pendingTicks>>
       ELSE /\ isRunning' = FALSE
            /\ pendingTicks' = pendingTicks
            /\ frameLog' = FrameLog("stop", "stopped", "none")
  /\ UNCHANGED <<vpVars, ctlVars, renderCall, lastFrameTime, frameInterval, now, ui,
                 mathCall>>

\* stop(): cancelAnimationFrame takes back the callback last scheduled, if it has
\* not run yet
stop ==
  /\ ui.ready
  /\ IF ~isRunning
       THEN /\ frameLog' = FrameLog("stop", "notRunning", "none")
            /\ UNCHANGED <<isRunning, pendingTicks>>
       ELSE /\ isRunning' = FALSE
            /\ pendingTicks' = IF pendingTicks > 0 THEN pendingTicks - 1 ELSE 0
            /\ frameLog' = FrameLog("stop", "stopped", "none")
  /\ UNCHANGED <<vpVars, ctlVars, renderCall, lastFrameTime, frameInterval, now, ui,
                 mathCall>>

\* dispose(): stop(), then the camera and the MediaPipe handler are released
dispose ==
  /\ ui.ready
  /\ IF ~isRunning
       THEN /\ frameLog' = FrameLog("dispose", "notRunning", "none")
            /\ UNCHANGED <<isRunning, pendingTicks>>
       ELSE /\ isRunning' = FALSE
            /\ pendingTicks' = IF pendingTicks > 0 THEN pendingTicks - 1 ELSE 0
            /\ frameLog' = FrameLog("dispose", "stopped", "none")
  /\ ui' = [ui EXCEPT !.disposed = TRUE]
  /\ UNCHANGED <<vpVars, ctlVars, renderCall, lastFrameTime, frameInterval, now, mathCall>>

\* the callback given to requestAnimationFrame runs, the time `gap` after the last
\* reading of the clock
AnimationFrame(gaps, maxTime, samples) ==
  /\ pendingTicks > 0
  /\ \E gap \in gaps :
       /\ now + gap <= maxTime
       /\ now' = now + gap
       /\ processFrames("tick", isRunning, lastFrameTime, pendingTicks - 1, samples)
  /\ UNCHANGED <<isRunning, frameInterval, ui, mathCall>>

\* the change handler of the FPS selector: setTargetFPS(fps)
SetTargetFPS ==
  /\ ui.ready
  /\ \E fps \in {15, 30} :
       /\ frameInterval' = FrameIntervalOf(fps)
       /\ frameInterval' # frameInterval
  /\ frameLog' = FrameLog("setTargetFPS", "none", "none")
  /\ UNCHANGED <<vpVars, ctlVars, renderCall, isRunning, lastFrameTime, now, pendingTicks,
                 ui, mathCall>>

\* updateScreenSize(screenWidth, screenHeight) of the controller
CtlUpdateScreenSize ==
  \E w \in ScreenWidths :
    /\ screenWidth' = w
    /\ ctlCall' = CtlCall("updateScreenSize", NullResult, NoLocals, NoReturn)
    /\ UNCHANGED <<baseTranslationX, baseTranslationY, baseTranslationZ, baseInitialized,
                   baseStablePointX, baseStablePointY, baseStablePointZ,
                   previousTranslationZ, sensitivityX, sensitivityY, sensitivityZ,
                   current, frameCount>>
    /\ UNCHANGED <<vpVars, appVars>>

\* the change handler of an axis checkbox
CheckboxChange ==
  /\ ui.ready
  /\ \E u \in {[ui EXCEPT !.enableX = ~ui.enableX], [ui EXCEPT !.enableY = ~ui.enableY],
               [ui EXCEPT !.enableZ = ~ui.enableZ]} :
       /\ ui' = u
       /\ applySensitivity(u)
  /\ ctlCall' = CtlCall("setSensitivity", NullResult, NoLocals, NoReturn)
  /\ UNCHANGED <<screenWidth, baseTranslationX, baseTranslationY, baseTranslationZ,
                 baseInitialized, baseStablePointX, baseStablePointY, baseStablePointZ,
                 previousTranslationZ, current, frameCount>>
  /\ UNCHANGED <<vpVars, renderCall, isRunning, lastFrameTime, frameInterval, now,
                 pendingTicks, frameLog, mathCall>>

\* the values the sliders are dragged to: for X and Y the first step above 0 and
\* the default
SliderXYChoices == {defaultSensitivityX \div 100, defaultSensitivityX}
SliderZChoices  == {defaultSensitivityZ, (SensZUnit \div 100)}

\* the input handler of a sensitivity slider
SliderInput ==
  /\ ui.ready
  /\ \E u \in {[ui EXCEPT !.sliderX = v] : v \in SliderXYChoices}
               \cup {[ui EXCEPT !.sliderY = v] : v \in SliderXYChoices}
               \cup {[ui EXCEPT !.sliderZ = v] : v \in SliderZChoices} :
       /\ u # ui
       /\ ui' = u
       /\ applySensitivity(u)
  /\ ctlCall' = CtlCall("setSensitivity", NullResult, NoLocals, NoReturn)
  /\ UNCHANGED <<screenWidth, baseTranslationX, baseTranslationY, baseTranslationZ,
                 baseInitialized, baseStablePointX, baseStablePointY, baseStablePointZ,
                 previousTranslationZ, current, frameCount>>
  /\ UNCHANGED <<vpVars, renderCall, isRunning, lastFrameTime, frameInterval, now,
                 pendingTicks, frameLog, mathCall>>

\* the click handler of the reset-sensitivity button
ResetSensitivityClick ==
  /\ ui.ready
  /\ ui' = [ready |-> TRUE, disposed |-> ui.disposed,
            enableX |-> TRUE, enableY |-> TRUE, enableZ |-> TRUE,
            sliderX |-> defaultSensitivityX, sliderY |-> defaultSensitivityY,
            sliderZ |-> defaultSensitivityZ]
  /\ setSensitivity(defaultSensitivityX, defaultSensitivityY, defaultSensitivityZ)
  /\ ctlCall' = CtlCall("setSensitivity", NullResult, NoLocals, NoReturn)
  /\ UNCHANGED <<screenWidth, baseTranslationX, baseTranslationY, baseTranslationZ,
                 baseInitialized, baseStablePointX, baseStablePointY, baseStablePointZ,
                 previousTranslationZ, current, frameCount>>
  /\ UNCHANGED <<vpVars, renderCall, isRunning, lastFrameTime, frameInterval, now,
                 pendingTicks, frameLog, mathCall>>

(***************************************************************************)
(* The application: frame loop with pacing, start and stop.                *)
(***************************************************************************)
MaxTimeSteps == 10
\* the period of a 60 Hz display, and the times between two readings of the clock
DisplayFrame == (1000 * TimeUnit) \div 60
TickGaps     == {DisplayFrame, 2 * DisplayFrame, 3 * DisplayFrame}
MaxTime      == MaxTimeSteps * DisplayFrame
AppSamples ==
  {NullResult, NoTranslation, Pose(0, 0, Z0), PoseSP(0, 0, Z0, SP0, SP0, 0),
   PoseSP(0, 0, Z0 + 5 * ZUnit, SP0 + PosUnit \div 100, SP0, 0)}

InitApp ==
  VpInit({<<600, 400>>}) /\ CtlInit({1920}) /\ PanoTestApp /\ mathCall = NoMathCall

NextApp ==
  \/ Initialize({NoStorage})
  \/ start({0} \cup TickGaps, MaxTime, AppSamples)
  \/ stop
  \/ AnimationFrame(TickGaps, MaxTime, AppSamples)
  \/ SetTargetFPS

\* The application from its construction on.
SpecApp == InitApp /\ [][NextApp]_vars

\* The application with dispose().
NextLoop == NextApp \/ dispose

SpecLoop == InitApp /\ [][NextLoop]_vars

\* processHeadPose called directly with a pose-source result that holds no pose
CtlNoDetection ==
  \E sample \in {NullResult, NoTranslation} :
    /\ processHeadPose(sample)
    /\ UNCHANGED <<vpVars, appVars>>

NextNoDetection == NextApp \/ CtlNoDetection

\* The application, and processHeadPose called on results without a pose.
SpecNoDetection == InitApp /\ [][NextNoDetection]_vars

(***************************************************************************)
(* The sensitivity controls, with frames processed in between.             *)
(***************************************************************************)
ControlStorages ==
  {Storage(sx, Null, sz, ex, "absent", ez, Null) :
     sx \in {Null, 2 * sliderMaxXY}, sz \in {10 * SensZUnit},
     ex \in {"absent", "false"}, ez \in {"absent", "true", "false"}}
ControlSamples ==
  {Pose(0, 0, Z0), PoseSP(0, 0, Z0, SP0, SP0, 0),
   PoseSP(0, 0, Z0 + ZUnit, SP0 + PosUnit \div 100, SP0 - PosUnit \div 100, 0)}
ControlsTime == MaxFrames * 2 * DisplayFrame

NextControls ==
  \/ Initialize(ControlStorages)
  \/ start({0}, ControlsTime, ControlSamples)
  \/ AnimationFrame({2 * DisplayFrame}, ControlsTime, ControlSamples)
  \/ CheckboxChange
  \/ SliderInput
  \/ ResetSensitivityClick

SpecControls == InitApp /\ [][NextControls]_vars

(***************************************************************************)
(* The controller fed samples and sensitivities that are no numbers.       *)
(***************************************************************************)
BadSamples ==
  {Pose(0, 0, z) : z \in {Z0, Z0 + ZUnit, NaN}}
    \cup {PoseSP(0, 0, z, x, SP0, 0) :
            z \in {Z0, Z0 + ZUnit, NaN}, x \in {SP0, SP0 + PosUnit \div 100, NaN}}
BadSensitivities == {<<defaultSensitivityX, defaultSensitivityY, defaultSensitivityZ>>,
                     <<NaN, defaultSensitivityY, NaN>>}

CtlProcessBadInput ==
  \E sample \in BadSamples :
    /\ frameCount < MaxFrames
    /\ processHeadPose(sample)
    /\ UNCHANGED <<vpVars, appVars>>

CtlSetBadSensitivity ==
  \E c \in BadSensitivities :
    /\ setSensitivity(c[1], c[2], c[3])
    /\ ctlCall' = CtlCall("setSensitivity", NullResult, NoLocals, NoReturn)
    /\ UNCHANGED <<screenWidth, baseTranslationX, baseTranslationY, baseTranslationZ,
                   baseInitialized, baseStablePointX, baseStablePointY, baseStablePointZ,
                   previousTranslationZ, current, frameCount>>
    /\ UNCHANGED <<vpVars, appVars>>

NextBadInput == CtlProcessBadInput \/ CtlResetBasePosition \/ CtlSetBadSensitivity

SpecBadInput == InitTracking /\ [][NextBadInput]_vars

(***************************************************************************)
(* The controller over a run long enough for its periodic logging.         *)
(***************************************************************************)
MaxLongFrames == 30
LongSamples == {Pose(0, 0, Z0), PoseSP(0, 0, Z0, SP0, SP0, 0)}

CtlProcessLong ==
  \E sample \in LongSamples :
    /\ frameCount < MaxLongFrames
    /\ processHeadPose(sample)
    /\ UNCHANGED <<vpVars, appVars>>

NextLongRun ==
  CtlProcessLong \/ CtlResetBasePosition \/ CtlSetSensitivity \/ CtlUpdateScreenSize

SpecLongRun == InitTracking /\ [][NextLongRun]_vars

(***************************************************************************)
(* math-utils called on its own.                                           *)
(***************************************************************************)
MaxAngle   == 2000
MaxZTenths == 900
AngleSteps == {0, 1, AngUnit, 50 * AngUnit}

\* the two arguments drawn, a <= b
MathArgs(op, a, b) == [op |-> op, a |-> a, b |-> b, ra |-> 0, rb |-> 0]

\* angularSizeToDisplayPercent(a) and angularSizeToDisplayPercent(b)
MathAngularSizeToDisplayPercent ==
  /\ mathCall.op = "angles"
  /\ mathCall' = [mathCall EXCEPT !.op = "angularSizeToDisplayPercent",
                                  !.ra = angularSizeToDisplayPercent(mathCall.a),
                                  !.rb = angularSizeToDisplayPercent(mathCall.b)]
  /\ UNCHANGED <<vpVars, ctlVars, renderCall, isRunning, lastFrameTime, frameInterval,
                 now, pendingTicks, frameLog, ui>>

\* zTranslationToDistance(a) and zTranslationToDistance(b), minDistance and
\* maxDistance at their defaults
MathZTranslationToDistance ==
  /\ mathCall.op = "zs"
  /\ mathCall' = [mathCall EXCEPT !.op = "zTranslationToDistance",
                                  !.ra = zTranslationToDistance(mathCall.a, minDistance,
                                                                maxDistance),
                                  !.rb = zTranslationToDistance(mathCall.b, minDistance,
                                                                maxDistance)]
  /\ UNCHANGED <<vpVars, ctlVars, renderCall, isRunning, lastFrameTime, frameInterval,
                 now, pendingTicks, frameLog, ui>>

\* the arguments drawn: two angles a <= b; or two z values a <= b from -80 on in
\* tenths, or a z that is null or NaN
InitMath ==
  /\ VpInit({<<600, 400>>}) /\ CtlInit({1920}) /\ PanoTestApp
  /\ \/ \E a \in 0..MaxAngle, d \in AngleSteps : mathCall = MathArgs("angles", a, a + d)
     \/ \E k \in 0..MaxZTenths, d \in {0, 1, ZUnit, 30 * ZUnit} :
          mathCall = MathArgs("zs", (k - 800) * (ZUnit \div 10),
                              (k - 800) * (ZUnit \div 10) + d)
     \/ \E v \in {Null, NaN} : mathCall = MathArgs("zs", v, v)

NextMath == MathAngularSizeToDisplayPercent \/ MathZTranslationToDistance

SpecMath == InitMath /\ [][NextMath]_vars

(***************************************************************************)
(* The Z sensitivity through localStorage: the slider handler of one page  *)
(* load saves it, initialize() of the next page load restores it.          *)
(***************************************************************************)
\* the Z slider input handler: roundedValue = Math.round(value * 10000) / 10000,
\* savedValue = Math.round(roundedValue * 1000); the result is the number that
\* parseFloat reads back from the item saved
SavedSensitivityZ(value) ==
  LET roundedValue == ((value * 10000 + SensZUnit \div 2) \div SensZUnit)
                        * (SensZUnit \div 10000)
      savedValue   == (roundedValue * 1000 + SensZUnit \div 2) \div SensZUnit
  IN  savedValue * SensZUnit

\* the Z slider is dragged to mathCall.a and its handler saves the item
SensitivityZInput ==
  /\ mathCall.op = "zSlider"
  /\ mathCall' = [mathCall EXCEPT !.op = "sensitivityZSaved",
                                  !.ra = SavedSensitivityZ(mathCall.a)]
  /\ UNCHANGED <<vpVars, ctlVars, renderCall, isRunning, lastFrameTime, frameInterval,
                 now, pendingTicks, frameLog, ui>>

\* the page is loaded again: initialize() with the item saved, nothing else stored
Reload ==
  /\ mathCall.op = "sensitivityZSaved"
  /\ Initialize({Storage(Null, Null, mathCall.ra, "absent", "absent", "absent", Null)})

\* the slider values: every step of 0.0001 from 0 to the slider's max
InitStorage ==
  /\ VpInit({<<600, 400>>}) /\ CtlInit({1920}) /\ PanoTestApp
  /\ \E v \in 0..sliderMaxZ : mathCall = MathArgs("zSlider", v * (SensZUnit \div 10000), 0)

NextStorage == SensitivityZInput \/ Reload

SpecStorage == InitStorage /\ [][NextStorage]_vars

(***************************************************************************)
(* Properties of the stored sensitivity                                    *)
(***************************************************************************)
\* C30: for every Z slider value v from 0 to 0.03 in steps of 0.0001, saving it
\* with the slider handler and restoring it on the next page load gives the
\* controller sensitivityZ = round(v * 1000) / 1000, never more than 0.03.
C30_ZRoundTrip ==
  (mathCall.op = "sensitivityZSaved" /\ ui.ready) =>
    /\ sensitivityZ = ((mathCall.a * 1000 + SensZUnit \div 2) \div SensZUnit)
                        * (SensZUnit \div 1000)
    /\ sensitivityZ <= sliderMaxZ

C26_DistanceMonotoneClamped ==
  mathCall.op = "zTranslationToDistance" =>
    /\ (mathCall.a \notin {Null, NaN} /\ mathCall.a <= mathCall.b)
         => mathCall.ra <= mathCall.rb
    /\ \A r \in {<<mathCall.a, mathCall.ra>>, <<mathCall.b, mathCall.rb>>} :
         /\ DistUnit \div 10 <= r[2]
         /\ r[2] <= (15 * DistUnit) \div 10
         /\ r[1] \in {Null, NaN} => r[2] = (8 * DistUnit) \div 10

\* z = -80 is clamped to 0.1 m, z = -50 gives 0.5109 m
C26_Witness ==
  /\ mathCall.op = "zTranslationToDistance"
  /\ mathCall.a = 0 - 80 * ZUnit
  /\ mathCall.b = 0 - 50 * ZUnit
  /\ mathCall.ra = DistUnit \div 10
  /\ mathCall.rb = (5109 * DistUnit) \div 10000

(***************************************************************************)
(* Properties of the ViewportManager                                       *)
(***************************************************************************)
ConstructionState ==
  /\ currentDisplayPercent = 50 * PctUnit
  /\ scale[1] = 2 * scale[2]
  /\ offsetX = 0
  /\ offsetY = 0

\* C1: a freshly constructed ViewportManager, before any call, reports scale 2.0,
\* offsets 0 and display percent 50.
C1_FreshViewport == vpCall.op = "constructor" => ConstructionState

C1_Witness == vpCall.op = "constructor" /\ imageWidth = 1920 /\ scale = <<100 * PctUnit, 50 * PctUnit>>

\* C2: from every reachable state reset() yields exactly the construction state
\* (display percent 50, scale 2.0, offsets 0), and a reset() right after a reset()
\* changes nothing.
C2_ResetRestoresConstruction ==
  /\ [](vpCall.op = "reset" => ConstructionState)
  /\ [][vpCall.op = "reset" /\ vpCall'.op = "reset"
          => <<currentDisplayPercent, scale, offsetX, offsetY>>'
               = <<currentDisplayPercent, scale, offsetX, offsetY>>]_vars

C2_Witness == vpCall.op = "reset" /\ vpCall.dirty

\* C3: the display percent always lies in [30, 100], the scale is 100 / percent,
\* hence at least 1 and at most 100/30, the maximum being taken at 30 percent.
C3_PercentAndScaleRange ==
  /\ 30 * PctUnit <= currentDisplayPercent
  /\ currentDisplayPercent <= 100 * PctUnit
  /\ scale[1] * currentDisplayPercent = 100 * PctUnit * scale[2]
  /\ scale[1] >= scale[2]
  /\ 30 * scale[1] <= 100 * scale[2]
  /\ (30 * scale[1] = 100 * scale[2] <=> currentDisplayPercent = 30 * PctUnit)

C3_Witness ==
  /\ vpCall.op = "updateDisplayPercent"
  /\ vpCall.pct < 30 * PctUnit
  /\ currentDisplayPercent = 30 * PctUnit
  /\ 30 * scale[1] = 100 * scale[2]

\* maxOffset = imageDimension * (scale - 1) / (2 * scale), written with
\* scale = 100 / displayPercent: imageDimension * (100 - displayPercent) / 200
PanLimit(imageDimension) ==
  (imageDimension * OffUnit * (100 * PctUnit - currentDisplayPercent)) \div (200 * PctUnit)

\* the candidate offsets of the last updateOffset call: the raw arguments after the
\* 0.1 pixel threshold and the inversion of Y
CandidateX == IF vpCall.x > OffUnit \div 10 \/ vpCall.x < 0 - OffUnit \div 10 THEN vpCall.x ELSE 0
CandidateY == IF vpCall.y > OffUnit \div 10 \/ vpCall.y < 0 - OffUnit \div 10 THEN 0 - vpCall.y ELSE 0

\* stored is the candidate damped beyond [-limit, limit]: the excess is kept at 3/10
Damped(stored, candidate, limit) ==
  /\ candidate > limit =>
       /\ 10 * stored = 10 * limit + 3 * (candidate - limit)
       /\ stored - limit < candidate - limit
       /\ stored > limit
  /\ candidate < 0 - limit =>
       /\ 10 * stored = 0 - 10 * limit + 3 * (candidate + limit)
       /\ (0 - limit) - stored < (0 - limit) - candidate
       /\ stored < 0 - limit
  /\ (0 - limit <= candidate /\ candidate <= limit) => stored = candidate

\* C8: after updateOffset a candidate beyond maxOffset by e is stored as
\* maxOffset + 0.3 * e (symmetrically below -maxOffset), so the stored excess is
\* strictly smaller than the candidate's; a candidate within bounds is stored as is.
C8_BoundaryDamping ==
  vpCall.op = "updateOffset" =>
    /\ Damped(offsetX, CandidateX, PanLimit(imageWidth))
    /\ Damped(offsetY, CandidateY, PanLimit(imageHeight))

C8_Witness ==
  /\ vpCall.op = "updateOffset"
  /\ PanLimit(imageWidth) > 0
  /\ CandidateX > PanLimit(imageWidth)
  /\ CandidateY < 0 - PanLimit(imageHeight)
  /\ offsetX > PanLimit(imageWidth)

\* C9 as claimed: at display percent 100 (scale 1) updateOffset always leaves
\* both offsets at 0.
C9_NoPanAtFullImage ==
  (vpCall.op = "updateOffset" /\ currentDisplayPercent = 100 * PctUnit)
    => (offsetX = 0 /\ offsetY = 0)

(***************************************************************************)
(* Properties of the HeadTrackingController                                *)
(***************************************************************************)
Processed == ctlCall.op = "processHeadPose" /\ ctlCall.ret.kind # "null"

\* C4: a baseline that processHeadPose has captured (stable point, translation)
\* is left alone by every later processHeadPose call, and the deltas of that call
\* are measured against it; a missing stable-point baseline is captured from the
\* sample at hand.
C4_BaselineCapturedOnce ==
  [][ (ctlCall'.op = "processHeadPose" /\ ctlCall'.ret.kind # "null") =>
        /\ baseStablePointX # Null =>
             /\ <<baseStablePointX, baseStablePointY, baseStablePointZ>>'
                  = <<baseStablePointX, baseStablePointY, baseStablePointZ>>
             /\ ctlCall'.sample.hasSP =>
                  /\ ctlCall'.locals.deltaX = ctlCall'.sample.spx - baseStablePointX
                  /\ ctlCall'.locals.deltaY = ctlCall'.sample.spy - baseStablePointY
        /\ (baseStablePointX = Null /\ ctlCall'.sample.hasSP) =>
             /\ baseStablePointX' = ctlCall'.sample.spx
             /\ baseStablePointY' = ctlCall'.sample.spy
        /\ baseTranslationZ # Null =>
             /\ baseTranslationZ' = baseTranslationZ
             /\ ctlCall'.locals.deltaZ = ctlCall'.sample.tz - baseTranslationZ
        /\ baseTranslationX # Null =>
             /\ <<baseTranslationX, baseTranslationY>>' = <<baseTranslationX, baseTranslationY>>
             /\ ~ctlCall'.sample.hasSP =>
                  /\ ctlCall'.locals.deltaX = ctlCall'.sample.tx - baseTranslationX
                  /\ ctlCall'.locals.deltaY = ctlCall'.sample.ty - baseTranslationY
    ]_vars

\* a second sample that differs from the captured baselines: its deltas are not 0
C4_Witness ==
  /\ Processed
  /\ ctlCall.sample.hasSP
  /\ baseStablePointX = SP0
  /\ ctlCall.sample.spx = SP0 + 2 * minChangeThreshold
  /\ ctlCall.locals.deltaX = 2 * minChangeThreshold
  /\ baseTranslationZ = Z0
  /\ ctlCall.locals.deltaZ = 2 * minZThreshold

\* C5 as claimed: after any processed sample the Z baseline is set (to the z of
\* the first sample processed while it was null), also when resetBasePosition was
\* called before any sample.
C5_ZBaselineAlwaysCaptured == Processed => baseTranslationZ # Null

\* C6 as claimed: without a stable point the pan offsets are the translation
\* deltas times the sensitivities whenever the delta exceeds the threshold.
C6_FallbackPan ==
  (Processed /\ ctlCall.ret.kind = "result" /\ ~ctlCall.sample.hasSP
     /\ baseTranslationX # Null) =>
    /\ Gt(Abs(ctlCall.sample.tx - baseTranslationX), minChangeThreshold)
         => ctlCall.ret.offsetX = (ctlCall.sample.tx - baseTranslationX) * sensitivityX
    /\ Gt(Abs(ctlCall.sample.ty - baseTranslationY), minChangeThreshold)
         => ctlCall.ret.offsetY = (ctlCall.sample.ty - baseTranslationY) * sensitivityY

\* C7: for a sample with a stable point, a delta from the baseline of at most the
\* threshold 0.001 gives offset exactly 0 on that axis, a larger one gives
\* delta * sensitivity; the offset is a function of the sample and the baseline only.
GatedOffset(point, base, sensitivity, offset) ==
  /\ (point - base <= PosUnit \div 1000 /\ base - point <= PosUnit \div 1000) => offset = 0
  /\ (point - base > PosUnit \div 1000 \/ base - point > PosUnit \div 1000)
       => offset = (point - base) * sensitivity

C7_NoiseGate ==
  (Processed /\ ctlCall.ret.kind = "result" /\ ctlCall.sample.hasSP) =>
    /\ GatedOffset(ctlCall.sample.spx, baseStablePointX, sensitivityX, ctlCall.ret.offsetX)
    /\ GatedOffset(ctlCall.sample.spy, baseStablePointY, sensitivityY, ctlCall.ret.offsetY)

\* delta 0.01 at sensitivityX 1000 gives 10 pixels, while Y sits exactly at the
\* threshold and gives 0
C7_Witness ==
  /\ Processed
  /\ ctlCall.sample.hasSP
  /\ sensitivityX = 1000
  /\ ctlCall.sample.spx - baseStablePointX = PosUnit \div 100
  /\ ctlCall.ret.offsetX = 10 * OffUnit
  /\ baseStablePointY - ctlCall.sample.spy = PosUnit \div 1000
  /\ ctlCall.ret.offsetY = 0

\* the distance and displayPercent processHeadPose returns for the sample from the
\* state at hand, were baseInitialized equal to wasInitialized
ZoomFor(sample, wasInitialized) ==
  LET baseZ    == IF wasInitialized THEN baseTranslationZ ELSE sample.tz
      distance == Distance(baseZ, SmoothDeltaZ(Sub(sample.tz, baseZ)))
  IN  <<distance, angularSizeToDisplayPercent(calculateAngularSize(screenWidth, distance))>>

\* C12 as claimed: after any history, the first sample processed after
\* resetBasePosition gets the distance and the displayPercent it would have got
\* had resetBasePosition not been called.
C12_RecenterKeepsZoom ==
  [][ (ctlCall.pendingReset /\ ctlCall'.op = "processHeadPose"
         /\ ctlCall'.ret.kind = "result") =>
        <<ctlCall'.ret.distance, ctlCall'.ret.displayPercent>>
          = ZoomFor(ctlCall'.sample, ctlCall.initializedBefore)
    ]_vars

\* the first sample ever processed is {x: 0, y: 0, z: -50} without a stable point
FirstSampleCall ==
  /\ frameCount = 0
  /\ frameCount' = 1
  /\ ctlCall'.op = "processHeadPose"
  /\ ctlCall'.sample = Pose(0, 0, Z0)

Within(v, limit) == v <= limit /\ 0 - limit <= v

\* C10 as claimed: whatever the displacement of the pose samples, the pan offsets
\* returned by processHeadPose and those exposed by the viewport stay within a
\* bound fixed by the configuration; the bound tried is the image size itself,
\* which exceeds maxOffset at every scale.
C10_OffsetsBoundedByConfiguration ==
  /\ Within(offsetX, imageWidth * OffUnit)
  /\ Within(offsetY, imageHeight * OffUnit)
  /\ ctlCall.ret.kind = "result" =>
       /\ Within(ctlCall.ret.offsetX, imageWidth * OffUnit)
       /\ Within(ctlCall.ret.offsetY, imageHeight * OffUnit)

\* C18: the source rectangle that ImageRenderer.render hands to drawImage lies
\* within the image, at every scale >= 1 and for every offset of the viewport,
\* those the soft clamp lets beyond maxOffset included: 0 <= sourceX,
\* sourceX + width / scale <= width, and the same for Y.
C18_SourceRectWithinImage ==
  renderCall.op = "render" =>
    /\ 0 <= renderCall.clampedSourceX
    /\ renderCall.clampedSourceX + renderCall.displayWidth <= imageWidth * OffUnit
    /\ 0 <= renderCall.clampedSourceY
    /\ renderCall.clampedSourceY + renderCall.displayHeight <= imageHeight * OffUnit

\* a frame was drawn zoomed in, with a pan that put the rectangle above the top edge
\* of the image: it is drawn from the edge
C18_Witness ==
  /\ renderCall.op = "render"
  /\ scale[1] > scale[2]
  /\ renderCall.displayHeight < imageHeight * OffUnit
  /\ renderCall.sourceY < 0
  /\ renderCall.clampedSourceY = 0
  /\ renderCall.sourceY = (imageHeight * OffUnit) \div 2 - renderCall.displayHeight \div 2 + offsetY

\* C21: resetBasePosition sets the stable-point baseline (X, Y, Z) and the X and Y
\* of the translation baseline to null, and leaves baseTranslationZ,
\* previousTranslationZ, the sensitivities, the screen width and all of the
\* ViewportManager as they were; ViewportManager.reset leaves all of the controller
\* as it was.
C21_ResetsAreSeparate ==
  [][ /\ (ctlCall' # ctlCall /\ ctlCall'.op = "resetBasePosition") =>
           /\ baseStablePointX' = Null /\ baseStablePointY' = Null
           /\ baseStablePointZ' = Null
           /\ baseTranslationX' = Null /\ baseTranslationY' = Null
           /\ UNCHANGED <<baseTranslationZ, previousTranslationZ, sensitivityX,
                          sensitivityY, sensitivityZ, screenWidth>>
           /\ UNCHANGED vpVars
      /\ (vpCall' # vpCall /\ vpCall'.op = "reset") =>
           /\ UNCHANGED ctlVars
           /\ ConstructionState'
    ]_vars

\* resetBasePosition was called with baselines captured, a Z smoothing value
\* accumulated and the viewport panned and zoomed: the Z side and the viewport
\* are still there
C21_Witness ==
  /\ ctlCall.op = "resetBasePosition"
  /\ baseStablePointX = Null
  /\ baseTranslationX = Null
  /\ baseTranslationZ = Z0
  /\ previousTranslationZ # 0
  /\ vpCall.op = "updateOffset"
  /\ offsetX # 0
  /\ currentDisplayPercent # initialDisplayPercent

\* C22: in a processed sample, if |deltaZ| > 0.0001 the smoothed value is
\* previous + (deltaZ - previous) * 0.3 and becomes the new previousTranslationZ;
\* otherwise the smoothed value is 0 and previousTranslationZ is set to 0, so the
\* next sample above the threshold is smoothed from 0.
C22_ZSmoothingStep ==
  [][ (ctlCall'.op = "processHeadPose" /\ ctlCall'.ret.kind = "result"
         /\ frameCount' = frameCount + 1) =>
        LET deltaZ == ctlCall'.locals.deltaZ
        IN  /\ (deltaZ > ZUnit \div 10000 \/ 0 - deltaZ > ZUnit \div 10000) =>
                 /\ ctlCall'.locals.smoothDeltaZ
                      = previousTranslationZ + ((deltaZ - previousTranslationZ) * 3) \div 10
                 /\ previousTranslationZ' = ctlCall'.locals.smoothDeltaZ
            /\ (deltaZ <= ZUnit \div 10000 /\ 0 - deltaZ <= ZUnit \div 10000) =>
                 /\ ctlCall'.locals.smoothDeltaZ = 0
                 /\ previousTranslationZ' = 0
    ]_vars

\* two samples 5 units nearer than the baseline in a row: 1.5, then
\* 1.5 + (5 - 1.5) * 0.3 = 2.55
C22_Witness ==
  /\ ctlCall.op = "processHeadPose" /\ ctlCall.ret.kind = "result"
  /\ baseTranslationZ = Z0
  /\ ctlCall.locals.deltaZ = 5 * ZUnit
  /\ ctlCall.locals.smoothDeltaZ = (255 * ZUnit) \div 100
  /\ previousTranslationZ = (255 * ZUnit) \div 100

\* two frames in a row call updateOffset with the same raw offsets at the same scale
RepeatedOffset ==
  /\ vpCall.op = "updateOffset"
  /\ vpCall'.op = "updateOffset"
  /\ frameCount' = frameCount + 1
  /\ vpCall'.x = vpCall.x
  /\ vpCall'.y = vpCall.y
  /\ scale' = scale

\* C24 as amended: the boundary clamp is soft, a raw offset beyond maxOffset is
\* stored beyond maxOffset, but the stored offset does not creep: the same raw
\* offset on the next frame, at the same scale, stores the same offset again.
C24_NoCreepOnRepeat ==
  [][ RepeatedOffset =>
        /\ offsetX' = offsetX
        /\ offsetY' = offsetY
        /\ Damped(offsetY', 0 - vpCall'.y, PanLimit(imageHeight)')
    ]_vars

\* a frame stored an offset beyond maxOffset for a raw Y offset of 445 pixels
C24_Witness ==
  /\ vpCall.op = "updateOffset"
  /\ frameCount = MaxFrames
  /\ vpCall.y = 445 * OffUnit
  /\ 0 - offsetY > PanLimit(imageHeight)
  /\ 0 - offsetY < vpCall.y

\* C24 as claimed: a raw offset beyond maxOffset fed again on the next frame, at
\* the same scale, moves the stored offset further outward.
C24_CreepsOutward ==
  [][ (RepeatedOffset /\ vpCall'.y > PanLimit(imageHeight)') =>
        0 - offsetY' > 0 - offsetY
    ]_vars

\* C25: in a processed frame with a tracking result the effects come in the order
\* processHeadPose, updateDisplayPercent, updateOffset, render: the viewport takes
\* the displayPercent of this frame's result, the pan of this frame is bounded by
\* the maxOffset of this frame's new scale, and what is drawn is this frame's
\* scale, offsetX and offsetY.
C25_OrderOfEffects ==
  [][ (ctlCall'.op = "processHeadPose" /\ ctlCall'.ret.kind = "result"
         /\ frameCount' = frameCount + 1) =>
        /\ vpCall'.op = "updateOffset"
        /\ vpCall'.pct = ctlCall'.ret.displayPercent
        /\ vpCall'.x = ctlCall'.ret.offsetX
        /\ vpCall'.y = ctlCall'.ret.offsetY
        /\ currentDisplayPercent' = ctlCall'.ret.displayPercent
        /\ scale' = ScaleOf(currentDisplayPercent')
        /\ Damped(offsetX', CandidateX', PanLimit(imageWidth)')
        /\ Damped(offsetY', CandidateY', PanLimit(imageHeight)')
        /\ renderCall' = render(scale', offsetX', offsetY')
    ]_vars

\* a frame with the head nearer than in the frame before, so with a larger
\* displayPercent and a smaller maxOffset, and panned beyond that maxOffset
C25_Witness ==
  /\ vpCall.op = "updateOffset"
  /\ ctlCall.op = "processHeadPose" /\ ctlCall.ret.kind = "result"
  /\ baseTranslationZ = Z0
  /\ ctlCall.locals.smoothDeltaZ = (15 * ZUnit) \div 10
  /\ currentDisplayPercent = ctlCall.ret.displayPercent
  /\ currentDisplayPercent > (497 * PctUnit) \div 10
  /\ CandidateY > PanLimit(imageHeight)
  /\ offsetY > PanLimit(imageHeight)
  /\ renderCall = render(scale, offsetX, offsetY)

\* C27: after any earlier frames, a processed sample whose stable point is within
\* the threshold of the baseline on both axes returns offsetX = offsetY = 0, and
\* the updateOffset that follows stores offsetX = offsetY = 0; in every frame the
\* stored offset follows from the frame's raw offsets, the scale and the image
\* size, not from the offset stored before.
C27_NoDriftAtRest ==
  [][ (ctlCall'.op = "processHeadPose" /\ ctlCall'.ret.kind = "result"
         /\ frameCount' = frameCount + 1) =>
        /\ (ctlCall'.sample.hasSP
              /\ Within(ctlCall'.locals.deltaX, PosUnit \div 1000)
              /\ Within(ctlCall'.locals.deltaY, PosUnit \div 1000)) =>
             /\ ctlCall'.ret.offsetX = 0 /\ ctlCall'.ret.offsetY = 0
             /\ offsetX' = 0 /\ offsetY' = 0
        /\ offsetX' = clampWithSmoothing(CandidateX', 0 - PanLimit(imageWidth)',
                                         PanLimit(imageWidth)')
        /\ offsetY' = clampWithSmoothing(CandidateY', 0 - PanLimit(imageHeight)',
                                         PanLimit(imageHeight)')
    ]_vars

\* the third frame is at the baseline while the zoom is moving: nothing is panned
C27_Witness ==
  /\ ctlCall.op = "processHeadPose" /\ ctlCall.ret.kind = "result"
  /\ frameCount = MaxFrames
  /\ ctlCall.sample.hasSP
  /\ baseStablePointX = SP0
  /\ ctlCall.locals.deltaX = 0 /\ ctlCall.locals.deltaY = 0
  /\ ctlCall.locals.smoothDeltaZ = (255 * ZUnit) \div 100
  /\ vpCall.op = "updateOffset"
  /\ offsetX = 0 /\ offsetY = 0

(***************************************************************************)
(* Properties of the application                                           *)
(***************************************************************************)
\* the fields of the controller: baselines, smoothing state, current values,
\* configuration
ctlFields == <<screenWidth, baseTranslationX, baseTranslationY, baseTranslationZ,
               baseInitialized, baseStablePointX, baseStablePointY, baseStablePointZ,
               previousTranslationZ, sensitivityX, sensitivityY, sensitivityZ, current,
               frameCount>>

\* C13: processHeadPose called with null, or with a result that has no translation,
\* returns null and changes no field of the controller; a frame of the loop whose
\* pose source yields no pose calls neither updateDisplayPercent nor updateOffset,
\* draws nothing and leaves the viewport and the controller as they were.
C13_NoDetectionChangesNothing ==
  [][ /\ (ctlCall'.op = "processHeadPose" /\ ctlCall'.sample.kind # "pose") =>
           /\ ctlCall'.ret.kind = "null"
           /\ UNCHANGED ctlFields
      /\ (frameLog'.kind = "processed" /\ frameLog'.acquired \in {"null", "noTranslation"}
            /\ now' > now) =>
           /\ UNCHANGED <<vpVars, renderCall>>
           /\ UNCHANGED ctlFields
    ]_vars

\* the last frame of the loop had no face and the last direct call had no
\* translation, after the viewport was panned and the baselines and the Z
\* smoothing state were set
C13_Witness ==
  /\ frameLog.kind = "processed"
  /\ frameLog.acquired = "null"
  /\ ctlCall.op = "processHeadPose"
  /\ ctlCall.sample.kind = "noTranslation"
  /\ ctlCall.ret.kind = "null"
  /\ offsetX # 0
  /\ baseStablePointX = SP0
  /\ previousTranslationZ # 0

\* C16: a run of processFrames while the loop is running and less than
\* frameInterval has passed since lastFrameTime is skipped: no pose is acquired,
\* processHeadPose is not called, the viewport is not updated, nothing is drawn,
\* lastFrameTime stays, and exactly one callback is scheduled. It holds for the
\* callback of requestAnimationFrame and for the call made by start(), which has
\* just set lastFrameTime to the time at hand.
C16_PacedFrameSkips ==
  [][ /\ (isRunning /\ now' > now /\ now' - lastFrameTime < frameInterval) =>
           /\ frameLog' = FrameLog("tick", "skipped", "none")
           /\ UNCHANGED <<vpVars, ctlVars, renderCall, lastFrameTime>>
           /\ pendingTicks' = (pendingTicks - 1) + 1
      /\ (~isRunning /\ isRunning') =>
           /\ frameLog' = FrameLog("start", "skipped", "none")
           /\ UNCHANGED <<vpVars, ctlVars, renderCall>>
           /\ lastFrameTime' = now'
           /\ pendingTicks' = pendingTicks + 1
    ]_vars

\* a callback has run too soon after a processed frame that panned the viewport,
\* at 15 frames per second
C16_Witness ==
  /\ frameLog = FrameLog("tick", "skipped", "none")
  /\ isRunning
  /\ lastFrameTime > 0
  /\ now > lastFrameTime
  /\ now - lastFrameTime < frameInterval
  /\ frameInterval = FrameIntervalOf(15)
  /\ pendingTicks = 1
  /\ offsetX # 0
  /\ renderCall.op = "render"

\* C17: an axis whose checkbox is off has controller sensitivity 0, after startup
\* loading and after any order of checkbox changes, slider inputs and
\* reset-sensitivity clicks; so a processed sample pans by 0 on a disabled X or Y
\* axis, and with Z disabled its distance is the distance of the Z baseline,
\* whatever translation.z is.
C17_DisabledAxisIsInert ==
  ui.ready =>
    /\ ~ui.enableX => sensitivityX = 0
    /\ ~ui.enableY => sensitivityY = 0
    /\ ~ui.enableZ => sensitivityZ = 0
    /\ (ctlCall.op = "processHeadPose" /\ ctlCall.ret.kind = "result") =>
         /\ ~ui.enableX => ctlCall.ret.offsetX = 0 /\ offsetX = 0
         /\ ~ui.enableY => ctlCall.ret.offsetY = 0 /\ offsetY = 0
         /\ ~ui.enableZ =>
              ctlCall.ret.distance
                = zTranslationToDistance(baseTranslationZ, minDistance, maxDistance)

\* with X and Z off and Y on, a sample displaced on all three axes was processed:
\* it pans on Y only and keeps the baseline distance
C17_Witness ==
  /\ ui.ready /\ ~ui.enableX /\ ui.enableY /\ ~ui.enableZ
  /\ ui.sliderX # 0 /\ ui.sliderZ # 0
  /\ ctlCall.op = "processHeadPose" /\ ctlCall.ret.kind = "result"
  /\ frameLog.kind = "processed"
  /\ ctlCall.locals.deltaX = PosUnit \div 100
  /\ ctlCall.locals.deltaZ = ZUnit
  /\ ctlCall.ret.offsetX = 0
  /\ ctlCall.ret.offsetY # 0
  /\ ctlCall.ret.distance = zTranslationToDistance(Z0, minDistance, maxDistance)

\* C23: in a frame, updateOffset takes a raw offset of magnitude <= 0.1 as 0;
\* a raw X offset above that and within maxOffset is stored as offsetX = rawX, a
\* raw Y offset above it and within maxOffset is stored as offsetY = -rawY;
\* the raw Y offset itself, as processHeadPose returns it, is deltaY * sensitivityY
\* without a change of sign.
C23_InRangeMapping ==
  (vpCall.op = "updateOffset" /\ ctlCall.op = "processHeadPose"
     /\ ctlCall.ret.kind = "result") =>
    /\ vpCall.x = ctlCall.ret.offsetX
    /\ vpCall.y = ctlCall.ret.offsetY
    /\ Within(vpCall.x, OffUnit \div 10) => offsetX = 0
    /\ Within(vpCall.y, OffUnit \div 10) => offsetY = 0
    /\ (~Within(vpCall.x, OffUnit \div 10) /\ Within(vpCall.x, PanLimit(imageWidth)))
         => offsetX = vpCall.x
    /\ (~Within(vpCall.y, OffUnit \div 10) /\ Within(vpCall.y, PanLimit(imageHeight)))
         => offsetY = 0 - vpCall.y
    /\ (ctlCall.sample.hasSP /\ ~Within(ctlCall.locals.deltaY, PosUnit \div 1000))
         => ctlCall.ret.offsetY = ctlCall.locals.deltaY * sensitivityY

\* a frame with the stable point 0.01 right of and 0.01 above the baseline, at
\* sensitivityX 10 and sensitivityY 1000: the raw X of 0.1 pixel is stored as 0, the
\* raw Y of -10 pixels as +10
C23_Witness ==
  /\ vpCall.op = "updateOffset"
  /\ ctlCall.op = "processHeadPose" /\ ctlCall.ret.kind = "result"
  /\ ctlCall.locals.deltaY = 0 - PosUnit \div 100
  /\ sensitivityY = 1000
  /\ ctlCall.ret.offsetY = 0 - 10 * OffUnit
  /\ offsetY = 10 * OffUnit
  /\ vpCall.x = OffUnit \div 10
  /\ offsetX = 0

\* C28: for every order of start(), stop(), dispose() and animation-frame
\* callbacks, at most one processFrames callback is scheduled at any time, none
\* while isRunning is false; no frame is processed while isRunning is false;
\* start() while running and stop() while stopped change nothing.
C28_SingleFrameLoop ==
  [][ /\ pendingTicks' <= 1
      /\ ~isRunning' => pendingTicks' = 0
      /\ (now' > now /\ frameLog'.kind = "processed") => isRunning /\ isRunning'
      /\ ~isRunning => UNCHANGED <<vpVars, baseInitialized, baseTranslationZ, baseStablePointX,
                                   previousTranslationZ, current, frameCount>>
      /\ ((isRunning /\ frameLog'.caller = "start" /\ frameLog' # frameLog)
            \/ (~isRunning /\ frameLog'.caller = "stop" /\ frameLog' # frameLog)) =>
           UNCHANGED <<vpVars, ctlVars, renderCall, isRunning, lastFrameTime, frameInterval,
                       now, pendingTicks, ui>>
    ]_vars

\* the loop runs again after a stop and a second start, one callback scheduled,
\* the viewport panned by a frame of the second run or the first
C28_Witness ==
  /\ isRunning
  /\ pendingTicks = 1
  /\ frameLog = FrameLog("start", "alreadyRunning", "none")
  /\ lastFrameTime > FrameIntervalOf(defaultFPS)
  /\ offsetX # 0

\* C29 as stated: a frame processed right after a processed frame comes at least
\* frameInterval later.
C29_FramesSeparated ==
  [][ (frameLog.kind = "processed" /\ now' > now /\ frameLog'.kind = "processed") =>
        now' - now >= frameInterval
    ]_vars

\* C29: a processed frame comes at least frameInterval after lastFrameTime, and
\* moves lastFrameTime forward by a whole number of frame intervals, one or more,
\* to a time less than frameInterval before the frame; the frames themselves may
\* be closer than frameInterval.
C29_PacedOnGrid ==
  [][ (now' > now /\ frameLog'.kind = "processed") =>
        /\ now' - lastFrameTime >= frameInterval
        /\ lastFrameTime' - lastFrameTime >= frameInterval
        /\ (lastFrameTime' - lastFrameTime) % frameInterval = 0
        /\ lastFrameTime' <= now'
        /\ now' - lastFrameTime' < frameInterval
    ]_vars

\* a frame processed half a frame interval after the time stored for it, so that
\* the callback half an interval later is processed as well
C29_Witness ==
  /\ isRunning
  /\ frameLog.kind = "processed"
  /\ frameInterval = FrameIntervalOf(defaultFPS)
  /\ now - lastFrameTime = DisplayFrame
  /\ pendingTicks = 1
  /\ frameCount >= 2

(***************************************************************************)
(* Properties of the controller on inputs that are no numbers              *)
(***************************************************************************)
\* C11 as claimed: every result object of processHeadPose, whatever the samples and
\* whatever was passed to setSensitivity before (NaN included), has a distance
\* within [minDistance, maxDistance] and a displayPercent within [30, 100], and
\* neither is NaN.
C11_ResultInRange ==
  ctlCall.ret.kind = "result" =>
    /\ ctlCall.ret.distance # NaN
    /\ ctlCall.ret.displayPercent # NaN
    /\ minDistance <= ctlCall.ret.distance
    /\ ctlCall.ret.distance <= maxDistance
    /\ minDisplayPercent <= ctlCall.ret.displayPercent
    /\ ctlCall.ret.displayPercent <= maxDisplayPercent

\* a sample with a NaN coordinate, in its translation or in its stable point
HasNaN(sample) ==
  \/ NaN \in {sample.tx, sample.ty, sample.tz}
  \/ sample.hasSP /\ NaN \in {sample.spx, sample.spy, sample.spz}

\* C14 as claimed: a processHeadPose call on a sample that holds a NaN coordinate
\* leaves the baselines (stable point and translation) and the Z smoothing state
\* previousTranslationZ as they were before the call, also when it is the first
\* sample of the session.
C14_BadFrameLeavesState ==
  [][ (ctlCall'.op = "processHeadPose" /\ ctlCall'.ret.kind # "null"
         /\ HasNaN(ctlCall'.sample)) =>
        /\ <<baseStablePointX, baseStablePointY, baseStablePointZ>>'
             = <<baseStablePointX, baseStablePointY, baseStablePointZ>>
        /\ <<baseTranslationX, baseTranslationY, baseTranslationZ>>'
             = <<baseTranslationX, baseTranslationY, baseTranslationZ>>
        /\ previousTranslationZ' = previousTranslationZ
    ]_vars

(***************************************************************************)
(* Properties of the controller over a long run                            *)
(***************************************************************************)
\* C15 as claimed: whatever the order of resetBasePosition, setSensitivity,
\* updateScreenSize and processHeadPose calls, a reset before the first sample
\* included, no processHeadPose call raises an exception: each returns null or a
\* result object.
C15_NeverThrows == ctlCall.op = "processHeadPose" => ctlCall.ret.kind \in {"null", "result"}

====
